---------------------------- MODULE Spec2Model ----------------------------
(***************************************************************************)
(* Model of src/app.py, the Blis Measurement Wizard.                       *)
(*                                                                         *)
(* app.py holds two revisions of the wizard one after the other: lines     *)
(* 1-849 (revision 1) and lines 850-1642 (revision 2).  Python allows a    *)
(* name only one definition at a time, TLA+ only one at all, so the        *)
(* definitions of revision 2 carry the suffix 2 (compute_feasibility_score *)
(* is lines 90-167, compute_feasibility_score2 is lines 982-1016).         *)
(*                                                                         *)
(* Strings are those of the source with its non-ASCII characters written   *)
(* in ASCII: the en dash as "-", the pound sign as "GBP", the arrow as     *)
(* "->", the almost-equal sign as "~".  No comparison of the source        *)
(* depends on the difference.                                              *)
(***************************************************************************)
EXTENDS Integers, Sequences, FiniteSets, TLC

VARIABLES
    step,           \* st.session_state.step
    answers,        \* st.session_state.answers: a dict, field name -> value
    pc,             \* what the last script run did: "idle" or what its handler reached
    final_answers,  \* the record the last submit assembled
    score,          \* the score the last submit computed
    status,         \* <<status_text, status_type>> of the last submit
    rec,            \* the recommendation the last submit built
    summary_lines,  \* the lines of the text export the last submit built
    calls,          \* the functions of the rule engine the last script run called, in order
    selections      \* how many times the user has changed a widget

vars == <<step, answers, pc, final_answers, score, status, rec, summary_lines, calls,
          selections>>

-----------------------------------------------------------------------------
(* Bounds of the model. *)

\* How many of the markets of MARKETS (in the order of the dict) the
\* specifications of the rule engine draw the market from.
MaxMarkets == 2

\* map_score_to_status is applied to every integer of -ScoreRange..ScoreRange.
ScoreRange == 30

-----------------------------------------------------------------------------
(* The enumerations: the option lists of the widgets. *)

\* app.py:430, 1243
TOTAL_STEPS == 14

\* The keys of MARKETS, in the order of the dict (app.py:31-42).
MARKETS == <<"US", "UK", "EU", "AU", "NZ", "Asia", "Benelux", "Italy", "India", "Other">>

OBJ_BRAND == "Brand awareness / consideration"
OBJ_FOOTFALL == "Footfall / store visits"
OBJ_SALES == "Sales / conversions"
OBJ_APP == "App installs / app usage"
OBJ_OTHER == "Other / I'm not sure"

\* The options of the step-4 radio.
OBJECTIVES == <<OBJ_BRAND, OBJ_FOOTFALL, OBJ_SALES, OBJ_APP, OBJ_OTHER>>

\* The options of the Yes / No / Not sure radios (steps 2, 8, 10).
YES_NO_NOTSURE == <<"Yes", "No", "Not sure">>

\* What get_budget_level and get_impression_level return.
LEVELS == <<"Low", "Medium", "High">>

\* The options of the step-7 selectbox.
DURATIONS == <<"< 1 week", "1-2 weeks", "2-4 weeks", "4+ weeks">>

EXP_FORMAL == "Formal, statistically robust lift study"
EXP_DIRECTIONAL == "Directional understanding / story is fine"
EXP_NOTSURE == "Not sure yet"

\* The options of the step-13 radio.
EXPECTATIONS == <<EXP_FORMAL, EXP_DIRECTIONAL, EXP_NOTSURE>>

CREATIVE_STRONG == "Strong, tested creative aligned to the message"
CREATIVE_AVERAGE == "Average / not tested yet"
CREATIVE_WEAK == "Weak / poor fit / static banners only"

\* The options of the step-11 radio.
CREATIVES == <<CREATIVE_STRONG, CREATIVE_AVERAGE, CREATIVE_WEAK>>

BLS_DURING == "During main body of campaign"
BLS_AFTER == "After/close to the end of campaign"
BLS_NONE == "Not planning Brand Lift / not sure"

\* The three values step 12 stores.
BLS_TIMINGS == <<BLS_DURING, BLS_AFTER, BLS_NONE>>

\* The two values step 9 stores.
NICHE_VALUES == <<"No", "Yes">>

Range(s) == {s[i] : i \in DOMAIN s}

Max(a, b) == IF a >= b THEN a ELSE b

-----------------------------------------------------------------------------
(* Feasibility scoring, revision 1 (app.py:90-182). *)

\* A variant of Deduct: the statement is "score += 1".
Deduct_increment(cond, s) == IF cond THEN s + 1 ELSE s

\* One "if <condition>: score -= 1" statement.
Deduct(cond, s) == IF cond THEN s - 1 ELSE s

\* The conditions of the eleven if-statements of lines 121-165, in the
\* order of the source.
risk_conditions(a) ==
    LET budget_level == a.budget_level
        impressions_level == a.impressions_level
        duration == a.duration
        objective == a.objective
        ids == a.ids
        offline_data == a.offline_data
        expectation == a.expectation
        other_media == a.other_media
        creative == a.creative
        niche == a.niche_audience
        omnichannel == a.omnichannel
        bls_timing == a.bls_timing
    IN  << budget_level = "Low",
           impressions_level = "Low",
           duration \in {"< 1 week", "1-2 weeks"},
           objective = OBJ_BRAND /\ ids = "No",
           objective \in {OBJ_FOOTFALL, OBJ_SALES, OBJ_APP} /\ offline_data = "No",
           expectation = EXP_FORMAL /\ (budget_level = "Low" \/ impressions_level = "Low"),
           other_media = "Yes",
           creative = CREATIVE_WEAK,
           objective = OBJ_BRAND /\ niche = "Yes",
           objective = OBJ_BRAND /\ bls_timing = BLS_AFTER,
           omnichannel = "Yes" /\ objective = OBJ_BRAND >>

\* Lines 105-165: score starts at 3 and each if-statement works on the
\* score the one before it left.
raw_score(a) ==
    LET c == risk_conditions(a)
        s0 == 3
        s1 == Deduct(c[1], s0)
        s2 == Deduct(c[2], s1)
        s3 == Deduct(c[3], s2)
        s4 == Deduct(c[4], s3)
        s5 == Deduct(c[5], s4)
        s6 == Deduct(c[6], s5)
        s7 == Deduct(c[7], s6)
        s8 == Deduct(c[8], s7)
        s9 == Deduct(c[9], s8)
        s10 == Deduct(c[10], s9)
        s11 == Deduct(c[11], s10)
    IN  s11

\* A variant of compute_feasibility_score: "return score", without the floor.
compute_feasibility_score_unclamped(a) == raw_score(a)

\* Line 167: return max(score, 0).
compute_feasibility_score(a) == Max(raw_score(a), 0)

\* A variant of map_score_to_status: the first test is "score == 3".
map_score_to_status_exact(s) ==
    IF s = 3 THEN <<"Strong measurement feasible", "success">>
    ELSE IF s = 2 THEN <<"Feasible but with clear caveats", "warning">>
    ELSE IF s = 1 THEN <<"Borderline - treat as directional only", "warning">>
    ELSE <<"Not recommended as a formal study - directional at best", "error">>

\* app.py:170-182: <<status_text, status_type>>.
map_score_to_status(s) ==
    IF s >= 3 THEN <<"Strong measurement feasible", "success">>
    ELSE IF s = 2 THEN <<"Feasible but with clear caveats", "warning">>
    ELSE IF s = 1 THEN <<"Borderline - treat as directional only", "warning">>
    ELSE <<"Not recommended as a formal study - directional at best", "error">>

-----------------------------------------------------------------------------
(* Feasibility scoring, revision 2 (app.py:982-1026). *)

\* The conditions of the nine if-statements of lines 995-1014.
risk_conditions2(a) ==
    LET budget_level == a.budget_level
        impressions_level == a.impressions_level
        duration == a.duration
        objective == a.objective
        ids == a.ids
        offline_data == a.offline_data
        expectation == a.expectation
        other_media == a.other_media
        creative == a.creative
        niche == a.niche_audience
    IN  << budget_level = "Low",
           impressions_level = "Low",
           duration \in {"< 1 week", "1-2 weeks"},
           objective = OBJ_BRAND /\ ids = "No",
           objective \in {OBJ_FOOTFALL, OBJ_SALES} /\ offline_data = "No",
           expectation = EXP_FORMAL /\ (budget_level = "Low" \/ impressions_level = "Low"),
           other_media = "Yes",
           creative = CREATIVE_WEAK,
           objective = OBJ_BRAND /\ niche = "Yes" >>

\* Lines 983-1016: the score is returned as the last if-statement left it.
compute_feasibility_score2(a) ==
    LET c == risk_conditions2(a)
        s0 == 3
        s1 == Deduct(c[1], s0)
        s2 == Deduct(c[2], s1)
        s3 == Deduct(c[3], s2)
        s4 == Deduct(c[4], s3)
        s5 == Deduct(c[5], s4)
        s6 == Deduct(c[6], s5)
        s7 == Deduct(c[7], s6)
        s8 == Deduct(c[8], s7)
        s9 == Deduct(c[9], s8)
    IN  s9

\* app.py:1019-1026.
map_score_to_status2(s) ==
    IF s >= 3 THEN <<"Strong measurement feasible", "success">>
    ELSE IF s = 2 THEN <<"Feasible but with caveats", "warning">>
    ELSE IF s = 1 THEN <<"Borderline - treat as directional only", "warning">>
    ELSE <<"Not recommended as a formal study - directional only", "error">>

-----------------------------------------------------------------------------
(* Recommendation logic, revision 1 (app.py:188-420).                      *)
(* A result is a record of primary and the four lists; each list is        *)
(* written as the appends to it in the order of the source.                *)

\* "if cond: lst.append(x)": what the statement adds to the list.
If(cond, entries) == IF cond THEN entries ELSE << >>

\* The entries of build_recommendation the properties below name.
PRIMARY_BRAND_SHG == "Run a Brand Lift via SHG / custom uplift (minimum 100k media spend)."
PRIMARY_BRAND_ID == "Run an ID-based Brand Lift Study (minimum 30k media spend)."
PRIMARY_FOOTFALL_ID == "Run an ID-based Footfall Uplift study (minimum 30k media spend)."
PRIMARY_FOOTFALL_SHG == "Run an SHG-based Footfall Uplift study (minimum 100k media spend)."
PRIMARY_FOOTFALL_PROXY == "Report on proximity and reach around stores; a formal footfall uplift study is not possible."
PRIMARY_SALES_UPLIFT == "Run a Sales Uplift study using merchant/product-level data."
PRIMARY_SALES_KPI == "Optimise to digital performance KPIs (e.g. conversions, ROAS). A formal sales uplift read is not possible without sales or transaction data."
PRIMARY_APP_UPLIFT == "Run an App Uplift study via eligible partners (minimum 120k media spend)."
PRIMARY_APP_ATTRIBUTION == "Use standard attribution and app analytics with directional uplift reads only."
PRIMARY_OTHER == "Use a custom uplift study via SHG where budgets allow (minimum 100k)."
METHOD_BRAND_SHG == "Brand Lift via SHG (minimum 100k)."
METHOD_BRAND_SHG_ODR == "If SHG is not possible, consider an ODR survey (minimum 40k)."
METHOD_BRAND_ID == "Brand Lift Study (ID-based, minimum 30k)."
METHOD_BRAND_ID_SHG == "If additional non-ID channels are important, consider SHG Brand Lift (minimum 100k)."
METHOD_BRAND_ID_ODR == "ODR survey (minimum 40k) can be used where panel-based brand work is preferred."
METHOD_FOOTFALL_ID == "Footfall uplift (ID-based, minimum 30k)."
METHOD_FOOTFALL_ID_SHG == "If IDs are limited, consider SHG-based footfall uplift (minimum 100k)."
METHOD_FOOTFALL_SHG == "Footfall uplift via SHG (minimum 100k)."
METHOD_FOOTFALL_REACH == "Report on reach, delivery and density of impressions around store postcodes."
METHOD_APP_ATTRIBUTION == "App attribution plus directional checks by geo or audience."
ALT_STORE_VISIT_DATA == "Work with the client to enable store-visit or equivalent data for future uplift work."
RISK_BUDGET_THRESHOLD == "Budget / spend threshold: below roughly 30k, most structured analyses struggle to achieve stable sample sizes."
RISK_BERMUDA == "This sits in the 'Bermuda Triangle' - low budget and low number of impressions. Results are likely to get lost in noise."
ALT_BERMUDA == "Increase budget and impressions, tighten targeting, or avoid positioning this as a formal uplift study."
RISK_BUDGET_REACH == "Budget vs reach tension: audience may be too broad relative to spend, which can thin out impressions and weaken effectiveness (e.g. broad sporty audience for a specialist brand)."
RISK_CREATIVE == "Creative quality: weak, static or poorly aligned creative can limit the chance of seeing any measurable lift, regardless of methodology."
ALT_CREATIVE == "Strengthen creative (messaging, formats, assets) and treat any current read as directional only."
RISK_MARKET == "Market you are advertising in can affect feasibility (panel coverage, data availability, partner access). Check local constraints before committing to specific vendors."
RISK_CONTROL == "Ensure there is a clear control or holdout group. Without a proper control, results become directional rather than definitive."

\* A variant of brand_needs_shg: "and" for "or".
brand_needs_shg_and(a) == a.ids # "Yes" /\ a.omnichannel = "Yes"

\* A variant of brand_needs_shg: the test on ids inverted.
brand_needs_shg_inverted(a) == a.ids = "Yes" \/ a.omnichannel = "Yes"

\* Line 218: if ids != "Yes" or omnichannel == "Yes".
brand_needs_shg(a) == a.ids # "Yes" \/ a.omnichannel = "Yes"

\* Lines 216-267: objective == "Brand awareness / consideration".
brand_recommendation(a) ==
    LET budget_level == a.budget_level
        niche == a.niche_audience
        bls_timing == a.bls_timing
        shg == brand_needs_shg(a)
    IN  [primary |-> IF shg THEN PRIMARY_BRAND_SHG ELSE PRIMARY_BRAND_ID,
         methods |-> IF shg
                     THEN <<METHOD_BRAND_SHG, METHOD_BRAND_SHG_ODR>>
                     ELSE <<METHOD_BRAND_ID, METHOD_BRAND_ID_SHG, METHOD_BRAND_ID_ODR>>,
         details |-> IF shg
                     THEN <<"Because IDs are missing on key channels or the campaign is omnichannel, SHG-style Brand Lift or an ODR survey is more suitable than pure ID-based BLS.">>
                     ELSE <<"Where IDs are present, use exposed vs control Brand Lift. If campaign mix shifts into non-ID channels, SHG can be layered in.">>,
         risks |-> If(budget_level = "Low", <<"Running a BLS under 30k can result in too small a sample and invalid results. Example CPM of GBP 8 on a GBP 30k budget ~ 240,000 impressions -> 240,000 / frequency of 3 ~ 80,000 unique reach -> 1% CTR gives 800 clicks -> 10% completion rate gives 80 completes, which is too small a sample.">>)
                   \o If(bls_timing = BLS_AFTER, <<"Running BLS after or very close to the end of a campaign limits the chance of getting a representative sample and reduces subconscious recognition even 48 hours after exposure.">>)
                   \o If(niche = "Yes", <<"B2B / niche audiences: likelihood of reaching them with BLS at scale is very low.">>)
                   \o <<"Respondent experience: avoid too many answer options, overly long questions or character-heavy text. These reduce completion rates and data quality.">>,
         alternatives |-> If(budget_level = "Low", <<"Increase spend to at least 30k for ID-based BLS, or shift to SHG/ODR with a higher budget.">>)
                          \o If(niche = "Yes", <<"Consider broader proxy audiences, alternative research (qual, desk), or use Brand Lift only as a directional read.">>)]

\* A variant of footfall_recommendation: the branch without visit data
\* appends nothing to alternatives.
footfall_recommendation_no_alternative(a) ==
    IF a.offline_data = "Yes" THEN
        [primary |-> IF a.ids = "Yes" THEN PRIMARY_FOOTFALL_ID ELSE PRIMARY_FOOTFALL_SHG,
         methods |-> IF a.ids = "Yes"
                     THEN <<METHOD_FOOTFALL_ID, METHOD_FOOTFALL_ID_SHG>>
                     ELSE <<METHOD_FOOTFALL_SHG>>,
         details |-> <<"Use location data (Blis or partners) to compare exposed vs control store visits.">>,
         risks |-> << >>,
         alternatives |-> << >>]
    ELSE
        [primary |-> PRIMARY_FOOTFALL_PROXY,
         methods |-> <<METHOD_FOOTFALL_REACH>>,
         details |-> <<"Without store-visit or equivalent offline data, focus on distribution of impressions and reach in store catchments rather than formal uplift.">>,
         risks |-> << >>,
         alternatives |-> << >>]

\* Lines 269-290: objective == "Footfall / store visits".
footfall_recommendation(a) ==
    IF a.offline_data = "Yes" THEN
        [primary |-> IF a.ids = "Yes" THEN PRIMARY_FOOTFALL_ID ELSE PRIMARY_FOOTFALL_SHG,
         methods |-> IF a.ids = "Yes"
                     THEN <<METHOD_FOOTFALL_ID, METHOD_FOOTFALL_ID_SHG>>
                     ELSE <<METHOD_FOOTFALL_SHG>>,
         details |-> <<"Use location data (Blis or partners) to compare exposed vs control store visits.">>,
         risks |-> << >>,
         alternatives |-> << >>]
    ELSE
        [primary |-> PRIMARY_FOOTFALL_PROXY,
         methods |-> <<METHOD_FOOTFALL_REACH>>,
         details |-> <<"Without store-visit or equivalent offline data, focus on distribution of impressions and reach in store catchments rather than formal uplift.">>,
         risks |-> << >>,
         alternatives |-> <<ALT_STORE_VISIT_DATA>>]

\* Lines 292-310: objective == "Sales / conversions".
sales_recommendation(a) ==
    IF a.offline_data = "Yes" THEN
        [primary |-> PRIMARY_SALES_UPLIFT,
         methods |-> <<"Mastercard uplift by merchant (minimum 120k).",
                       "Circana uplift by product (minimum 100k).">>,
         details |-> <<"Use exposed vs control matched at merchant or product level, following the minimum spends.">>,
         risks |-> << >>,
         alternatives |-> << >>]
    ELSE
        [primary |-> PRIMARY_SALES_KPI,
         methods |-> << >>,
         details |-> <<"Without sales data, we can still optimise but cannot run a proper sales uplift study.">>,
         risks |-> << >>,
         alternatives |-> <<"Enable Mastercard / Circana or client sales data integrations for future campaigns.">>]

\* Lines 312-324: objective == "App installs / app usage".
app_recommendation(a) ==
    IF a.offline_data = "Yes" THEN
        [primary |-> PRIMARY_APP_UPLIFT,
         methods |-> <<"O2 / VMO2-style App Uplift (minimum 120k).">>,
         details |-> <<"Use app analytics to compare exposed vs control app usage or installs, respecting partner minimums.">>,
         risks |-> << >>,
         alternatives |-> << >>]
    ELSE
        [primary |-> PRIMARY_APP_ATTRIBUTION,
         methods |-> <<METHOD_APP_ATTRIBUTION>>,
         details |-> <<"Without a dedicated app uplift framework, attribute installs to media and treat uplift as directional.">>,
         risks |-> << >>,
         alternatives |-> << >>]

\* Lines 326-332: the final else.
other_recommendation(a) ==
    [primary |-> PRIMARY_OTHER,
     methods |-> <<"Custom uplift via SHG (minimum 100k).">>,
     details |-> <<"For bespoke outcomes, use SHG-based custom uplift where minimum budgets are met; otherwise, rely on campaign KPIs directionally.">>,
     risks |-> << >>,
     alternatives |-> << >>]

\* Lines 207-332: the if/elif chain on the objective.
core_recommendation(a) ==
    LET objective == a.objective
    IN  IF objective = OBJ_BRAND THEN brand_recommendation(a)
        ELSE IF objective = OBJ_FOOTFALL THEN footfall_recommendation(a)
        ELSE IF objective = OBJ_SALES THEN sales_recommendation(a)
        ELSE IF objective = OBJ_APP THEN app_recommendation(a)
        ELSE other_recommendation(a)

\* A variant of cross_risks: the 'Bermuda Triangle' test is an elif of the
\* budget test before it, so it is never reached with a low budget.
cross_risks_bermuda_elif(a) ==
    LET budget_level == a.budget_level
        impressions_level == a.impressions_level
        duration == a.duration
        other_media == a.other_media
        creative == a.creative
        niche == a.niche_audience
    IN  If(budget_level = "Low", <<RISK_BUDGET_THRESHOLD>>)
        \o If(budget_level # "Low" /\ budget_level = "Low" /\ impressions_level = "Low",
              <<RISK_BERMUDA>>)
        \o If(impressions_level = "Low", <<"Number and density of impressions are limited. Distribution across postcodes may be patchy, reducing representativeness.">>)
        \o If(duration \in {"< 1 week", "1-2 weeks"}, <<"Duration is short (even allowing for bursts of activity). It may not allow enough time to build reach and frequency.">>)
        \o If(budget_level = "Low" /\ impressions_level \in {"Medium", "High"},
              <<RISK_BUDGET_REACH>>)
        \o If(niche = "Yes", <<"Things that can limit effectiveness: niche or ultra high value audiences are harder to reach consistently and can struggle to hit the minimum sample requirements.">>)
        \o If(other_media = "Yes", <<"Other media running in the same markets and period will make it harder to isolate this activity's impact.">>)
        \o If(creative = CREATIVE_WEAK, <<RISK_CREATIVE>>)
        \o <<RISK_MARKET>>
        \o <<RISK_CONTROL>>

\* A variant of cross_risks: the budget-vs-reach entry is appended for every
\* low budget, whatever the impressions.
cross_risks_tension_any(a) ==
    LET budget_level == a.budget_level
        impressions_level == a.impressions_level
        duration == a.duration
        other_media == a.other_media
        creative == a.creative
        niche == a.niche_audience
    IN  If(budget_level = "Low", <<RISK_BUDGET_THRESHOLD>>)
        \o If(budget_level = "Low" /\ impressions_level = "Low", <<RISK_BERMUDA>>)
        \o If(impressions_level = "Low", <<"Number and density of impressions are limited. Distribution across postcodes may be patchy, reducing representativeness.">>)
        \o If(duration \in {"< 1 week", "1-2 weeks"}, <<"Duration is short (even allowing for bursts of activity). It may not allow enough time to build reach and frequency.">>)
        \o If(budget_level = "Low",
              <<RISK_BUDGET_REACH>>)
        \o If(niche = "Yes", <<"Things that can limit effectiveness: niche or ultra high value audiences are harder to reach consistently and can struggle to hit the minimum sample requirements.">>)
        \o If(other_media = "Yes", <<"Other media running in the same markets and period will make it harder to isolate this activity's impact.">>)
        \o If(creative = CREATIVE_WEAK, <<RISK_CREATIVE>>)
        \o <<RISK_MARKET>>
        \o <<RISK_CONTROL>>

\* A variant of cross_risks: the control note is appended before the market
\* note.
cross_risks_control_first(a) ==
    LET budget_level == a.budget_level
        impressions_level == a.impressions_level
        duration == a.duration
        other_media == a.other_media
        creative == a.creative
        niche == a.niche_audience
    IN  If(budget_level = "Low", <<RISK_BUDGET_THRESHOLD>>)
        \o If(budget_level = "Low" /\ impressions_level = "Low", <<RISK_BERMUDA>>)
        \o If(impressions_level = "Low", <<"Number and density of impressions are limited. Distribution across postcodes may be patchy, reducing representativeness.">>)
        \o If(duration \in {"< 1 week", "1-2 weeks"}, <<"Duration is short (even allowing for bursts of activity). It may not allow enough time to build reach and frequency.">>)
        \o If(budget_level = "Low" /\ impressions_level \in {"Medium", "High"},
              <<RISK_BUDGET_REACH>>)
        \o If(niche = "Yes", <<"Things that can limit effectiveness: niche or ultra high value audiences are harder to reach consistently and can struggle to hit the minimum sample requirements.">>)
        \o If(other_media = "Yes", <<"Other media running in the same markets and period will make it harder to isolate this activity's impact.">>)
        \o If(creative = CREATIVE_WEAK, <<RISK_CREATIVE>>)
        \o <<RISK_CONTROL>>
        \o <<RISK_MARKET>>

\* Lines 338-412: what the cross-cutting pass appends to risks.
cross_risks(a) ==
    LET budget_level == a.budget_level
        impressions_level == a.impressions_level
        duration == a.duration
        other_media == a.other_media
        creative == a.creative
        niche == a.niche_audience
    IN  If(budget_level = "Low", <<RISK_BUDGET_THRESHOLD>>)
        \o If(budget_level = "Low" /\ impressions_level = "Low", <<RISK_BERMUDA>>)
        \o If(impressions_level = "Low", <<"Number and density of impressions are limited. Distribution across postcodes may be patchy, reducing representativeness.">>)
        \o If(duration \in {"< 1 week", "1-2 weeks"}, <<"Duration is short (even allowing for bursts of activity). It may not allow enough time to build reach and frequency.">>)
        \o If(budget_level = "Low" /\ impressions_level \in {"Medium", "High"},
              <<RISK_BUDGET_REACH>>)
        \o If(niche = "Yes", <<"Things that can limit effectiveness: niche or ultra high value audiences are harder to reach consistently and can struggle to hit the minimum sample requirements.">>)
        \o If(other_media = "Yes", <<"Other media running in the same markets and period will make it harder to isolate this activity's impact.">>)
        \o If(creative = CREATIVE_WEAK, <<RISK_CREATIVE>>)
        \o <<RISK_MARKET>>
        \o <<RISK_CONTROL>>

\* A variant of cross_alternatives: the creative suggestion is appended in
\* the elif branch (average creative) instead of the if branch (weak).
cross_alternatives_creative_elif(a) ==
    If(a.budget_level = "Low" /\ a.impressions_level = "Low", <<ALT_BERMUDA>>)
    \o If(a.other_media = "Yes", <<"Where possible, separate test vs control geographies or time periods to reduce contamination from other media.">>)
    \o If(a.creative # CREATIVE_WEAK /\ a.creative = CREATIVE_AVERAGE, <<ALT_CREATIVE>>)

\* Lines 350-397: what the cross-cutting pass appends to alternatives.
cross_alternatives(a) ==
    If(a.budget_level = "Low" /\ a.impressions_level = "Low", <<ALT_BERMUDA>>)
    \o If(a.other_media = "Yes", <<"Where possible, separate test vs control geographies or time periods to reduce contamination from other media.">>)
    \o If(a.creative = CREATIVE_WEAK, <<ALT_CREATIVE>>)

\* A variant of cross_details: the note is appended under the Brand
\* objective only.
cross_details_brand_only(a) ==
    If(a.objective = OBJ_BRAND /\ a.creative # CREATIVE_WEAK /\ a.creative = CREATIVE_AVERAGE,
       <<"Creative has not been fully tested - interpret results as a read on both media and creative effectiveness.">>)

\* Lines 398-401: what the cross-cutting pass appends to details (the elif
\* of the creative test).
cross_details(a) ==
    If(a.creative # CREATIVE_WEAK /\ a.creative = CREATIVE_AVERAGE, <<"Creative has not been fully tested - interpret results as a read on both media and creative effectiveness.">>)

\* Lines 188-420: the lists of the objective's branch, each followed by what
\* the cross-cutting pass appends to it.  Line 199 reads answers["market"]
\* and line 200 answers["expectation"]; nothing uses either value.
build_recommendation(a) ==
    LET core == core_recommendation(a)
    IN  [primary |-> core.primary,
         details |-> core.details \o cross_details(a),
         risks |-> core.risks \o cross_risks(a),
         alternatives |-> core.alternatives \o cross_alternatives(a),
         methods |-> core.methods]

-----------------------------------------------------------------------------
(* Vendor hints (app.py:923-976). *)

\* "<needle> in objective" for the four needles of get_vendor_hint.  The
\* model's objectives are the five options of step 4 and UNMAPPED, and among
\* these each needle is a substring of exactly one.
Contains(objective, needle) ==
    CASE needle = "Brand awareness" -> objective = OBJ_BRAND
      [] needle = "Footfall" -> objective = OBJ_FOOTFALL
      [] needle = "Sales / conversions" -> objective = OBJ_SALES
      [] needle = "App installs" -> objective = OBJ_APP
      [] OTHER -> FALSE

\* dict.get(key, default)
Get(dict, key, default) == IF key \in DOMAIN dict THEN dict[key] ELSE default

\* app.py:925-936
BRAND_HINTS ==
    "US" :> "Brand lift via established US panel/brand study partners."
    @@ "UK" :> "Brand lift via UK panel/brand study partners."
    @@ "EU" :> "Brand lift via EU panel providers."
    @@ "AU" :> "Brand lift via AU/NZ panel providers."
    @@ "NZ" :> "Brand lift via AU/NZ panel providers."
    @@ "Asia" :> "Brand lift via regional panel partners where available."
    @@ "Benelux" :> "Brand lift via EU/Benelux panel partners."
    @@ "Italy" :> "Brand lift via EU/IT panel partners."
    @@ "India" :> "Brand lift via India panel partners where active."
    @@ "Other" :> "Brand lift via local/regional panel partners where available."

\* app.py:938-949
FOOTFALL_HINTS ==
    "US" :> "Footfall using Blis location graph and US POI/visit partners."
    @@ "UK" :> "Footfall using Blis UK location graph and POI data."
    @@ "EU" :> "Footfall using Blis EU location graph and retail POIs."
    @@ "AU" :> "Footfall using AU/NZ location partners where available."
    @@ "NZ" :> "Footfall using AU/NZ location partners where available."
    @@ "Asia" :> "Footfall using regional location graph where coverage allows."
    @@ "Benelux" :> "Footfall using EU/Benelux location graph and POIs."
    @@ "Italy" :> "Footfall using EU/IT graph; check store coverage and compliance."
    @@ "India" :> "Footfall using India location graph where active."
    @@ "Other" :> "Footfall via local/regional location and POI partners."

\* app.py:951-962
SALES_HINTS ==
    "US" :> "Sales uplift using available retail/e-comm/panel data sources."
    @@ "UK" :> "Sales uplift using UK retail/panel/loyalty data where enabled."
    @@ "EU" :> "Sales uplift using EU retail/panel data where enabled."
    @@ "AU" :> "Sales uplift using AU retailer/panel data where available."
    @@ "NZ" :> "Sales uplift using AU/NZ retail data where available."
    @@ "Asia" :> "Sales uplift using local e-commerce/retail data where clients provide it."
    @@ "Benelux" :> "Sales uplift using EU/Benelux retail or panel data where available."
    @@ "Italy" :> "Sales uplift using EU/IT retail/panel data."
    @@ "India" :> "Sales uplift using India retail/e-commerce data where enabled."
    @@ "Other" :> "Sales uplift using local retail/panel data where available."

\* app.py:964-975
APP_HINTS ==
    "US" :> "App uplift via app analytics/MMP-style partners."
    @@ "UK" :> "App uplift via UK app analytics/MMP setups."
    @@ "EU" :> "App uplift via EU app analytics/MMP setups."
    @@ "AU" :> "App uplift via AU/NZ app analytics setups."
    @@ "NZ" :> "App uplift via AU/NZ app analytics setups."
    @@ "Asia" :> "App uplift via regional app analytics setups."
    @@ "Benelux" :> "App uplift via EU app analytics setups."
    @@ "Italy" :> "App uplift via EU/IT app analytics setups."
    @@ "India" :> "App uplift via India app analytics/MMP setups."
    @@ "Other" :> "App uplift via local app analytics/MMP setups."

get_vendor_hint(market, objective) ==
    IF Contains(objective, "Brand awareness") THEN Get(BRAND_HINTS, market, "")
    ELSE IF Contains(objective, "Footfall") THEN Get(FOOTFALL_HINTS, market, "")
    ELSE IF Contains(objective, "Sales / conversions") THEN Get(SALES_HINTS, market, "")
    ELSE IF Contains(objective, "App installs") THEN Get(APP_HINTS, market, "")
    ELSE ""

-----------------------------------------------------------------------------
(* Recommendation logic, revision 2 (app.py:1032-1233). *)

\* Lines 1048-1168.
core_recommendation2(a) ==
    LET objective == a.objective
        ids == a.ids
        budget_level == a.budget_level
        control == a.control
        offline_data == a.offline_data
        omnichannel == a.omnichannel
        niche == a.niche_audience
        bls_timing == a.bls_timing
    IN  IF objective = OBJ_BRAND THEN
            LET shg == ids # "Yes" \/ omnichannel = "Yes"
            IN  [primary |-> IF shg
                             THEN "Run an SHG-based Brand Lift / custom uplift study (min ~100k media spend)."
                             ELSE "Run an ID-based Brand Lift Study (min ~30k media spend).",
                 methods |-> IF shg
                             THEN <<"BLS SHG (minimum ~100k media spend).",
                                    "If SHG is not possible, use ODR-style survey (minimum ~40k).">>
                             ELSE <<"BLS ID (minimum ~30k media spend).",
                                    "Optionally, BLS SHG (minimum ~100k) for omnichannel coverage.",
                                    "ODR survey (minimum ~40k) as an alternative panel-based approach.">>,
                 details |-> IF shg
                             THEN <<"Channels without IDs and omnichannel activity require SHG-type brand lift or an ODR survey rather than pure ID-based BLS.">>
                             ELSE <<"Use exposed vs control Brand Lift with IDs where available. If additional channels lack IDs, consider SHG.">>,
                 risks |-> If(control = "No", <<"No control group defined - weakens the ability to prove incremental lift.">>)
                           \o If(budget_level = "Low", <<"Running a BLS under ~30k spend can produce too small a sample. Example: GBP 8 CPM on a GBP 30k budget ~ 240k impressions -> 80k unique reach at freq 3 -> 800 clicks at 1% CTR -> 80 completes at 10% completion - too small.">>)
                           \o If(bls_timing = BLS_AFTER, <<"Running BLS after/close to the end of a campaign makes it hard to get a representative sample; subconscious recognition even 48 hours after exposure is limited.">>)
                           \o If(niche = "Yes", <<"B2B/niche audience: likelihood of reaching enough respondents with BLS is very low.">>)
                           \o <<"Respondent experience: avoid too many answer options, overly long questions, or excessive survey length - these reduce completion and data quality.">>,
                 alternatives |-> If(control = "No", <<"Set up a holdout geo/audience, even if small, for future flights.">>)
                                  \o If(budget_level = "Low", <<"Increase spend beyond ~30k or treat any Brand Lift read as small-sample and directional.">>)
                                  \o If(niche = "Yes", <<"Consider broader proxy audiences or alternative methods (qual, desk research, panel-based).">>)]
        ELSE IF objective = OBJ_FOOTFALL THEN
            IF offline_data = "Yes" THEN
                [primary |-> IF ids = "Yes"
                             THEN "Run an ID-based Footfall Uplift study (min ~30k media spend)."
                             ELSE "Run an SHG-based Footfall Uplift study (min ~100k media spend).",
                 methods |-> IF ids = "Yes"
                             THEN <<"Footfall uplift (ID-based) - minimum ~30k.",
                                    "Footfall uplift via SHG (minimum ~100k) for omnichannel/no-ID media.">>
                             ELSE <<"Footfall uplift (SHG) - minimum ~100k.">>,
                 details |-> <<"Use Blis/partner location data to compare exposed vs control store visits.">>,
                 risks |-> << >>,
                 alternatives |-> << >>]
            ELSE
                [primary |-> "Use location reach & proximity as a proxy for footfall (no visit data).",
                 methods |-> <<"Reach within store catchments & visit propensity reporting.">>,
                 details |-> <<"Without reliable store visit data, report on reach within store catchments and density of impressions around stores instead of strict uplift.">>,
                 risks |-> << >>,
                 alternatives |-> <<"Enable store visit data (via partners, beacons, Wi-Fi, or POS linkage) for future campaigns.">>]
        ELSE IF objective = OBJ_SALES THEN
            IF offline_data = "Yes" THEN
                [primary |-> "Run a Sales Uplift study using merchant/product-level data.",
                 methods |-> <<"Mastercard by merchant (minimum ~120k media spend).",
                               "Circana by product (minimum ~100k media spend).">>,
                 details |-> <<"Use matched exposed vs control at merchant/product level with panel or transaction data.">>,
                 risks |-> << >>,
                 alternatives |-> << >>]
            ELSE
                [primary |-> "Optimise towards performance KPIs (CPA/ROAS); full sales uplift not feasible without transaction data.",
                 methods |-> << >>,
                 details |-> <<"Without sales data you can still optimise towards digital conversions but not run a formal sales uplift.">>,
                 risks |-> << >>,
                 alternatives |-> <<"Work with the client to enable sales data sharing or partner connections for uplift work.">>]
        ELSE IF objective = OBJ_APP THEN
            IF offline_data = "Yes" THEN
                [primary |-> "Run an App Uplift study for key telco/app partners (min ~120k media spend).",
                 methods |-> <<"O2/VMO2-style app uplift (minimum ~120k media spend).">>,
                 details |-> <<"Use app analytics to compare exposed vs control app usage/installs, respecting partner minimums.">>,
                 risks |-> << >>,
                 alternatives |-> << >>]
            ELSE
                [primary |-> "Use standard app analytics and attribution with directional uplift checks.",
                 methods |-> <<"Standard app attribution with simple uplift checks by geo/audience.">>,
                 details |-> <<"Without dedicated app uplift partners, attribute installs to media and use trend differences as directional evidence.">>,
                 risks |-> << >>,
                 alternatives |-> << >>]
        ELSE
            [primary |-> "Run an SHG/custom uplift approach where possible (min ~100k media spend).",
             methods |-> <<"Other/custom uplift via SHG (minimum ~100k).">>,
             details |-> <<"For bespoke outcomes, use SHG/custom uplift as long as minimum volume is met; otherwise fall back to directional KPIs.">>,
             risks |-> << >>,
             alternatives |-> << >>]

\* Line 1220: the market caveat of revision 2.
RISK_MARKET2 == "Market data coverage and partner availability can vary - check in-market teams before promising specifics."

\* Lines 1170-1221: what the cross-cutting pass appends to risks.
cross_risks2(a) ==
    LET budget_level == a.budget_level
        impressions_level == a.impressions_level
        duration == a.duration
        market == a.market
        other_media == a.other_media
        creative == a.creative
        niche == a.niche_audience
    IN  If(budget_level = "Low", <<"Budget/spend may be below the ~30k threshold - this can limit sample size and statistical power.">>)
        \o If(budget_level = "Low" /\ impressions_level = "Low", <<"Low spend AND low impressions - this is the 'Bermuda Triangle' where results often get lost.">>)
        \o If(impressions_level = "Low", <<"Number and density of impressions may be too low for robust learning - reach per postcode will be light.">>)
        \o If(duration \in {"< 1 week", "1-2 weeks"}, <<"Duration is short - limited time to build reach and frequency, especially if there are bursts of activity.">>)
        \o If(niche = "Yes", <<"Niche audience (e.g., ultra high net worth, B2B decision makers) - budget vs reach trade-off is tough.">>)
        \o If(other_media = "Yes", <<"Heavy other media in the same period/markets makes it harder to isolate this campaign's impact.">>)
        \o If(creative = CREATIVE_WEAK, <<"Creative is weak or poorly aligned - even a perfect design may fail to show lift.">>)
        \o If(market \in {"India", "Asia", "Other"}, <<RISK_MARKET2>>)

\* Lines 1179-1212: what the cross-cutting pass appends to alternatives.
cross_alternatives2(a) ==
    If(a.budget_level = "Low" /\ a.impressions_level = "Low", <<"Increase scale (budget/impressions) or avoid promising a formal uplift study; treat as exploratory.">>)
    \o If(a.other_media = "Yes", <<"Stagger campaigns, define clean test vs control regions, or apply geo designs that consider other media.">>)
    \o If(a.creative = CREATIVE_WEAK, <<"Improve or test creative first, then rerun measurement on a stronger platform.">>)

\* Lines 1213-1216: what the cross-cutting pass appends to details.
cross_details2(a) ==
    If(a.creative # CREATIVE_WEAK /\ a.creative = CREATIVE_AVERAGE, <<"Creative has not been fully tested - treat results as a read on both media and creative effectiveness.">>)

\* A variant of cross_methods2: the hint is appended without the test of
\* line 1224.
cross_methods2_unconditional(a) == <<get_vendor_hint(a.market, a.objective)>>

\* Lines 1223-1225: what the vendor hint appends to methods.
cross_methods2(a) ==
    LET vendor_hint == get_vendor_hint(a.market, a.objective)
    IN  If(vendor_hint # "", <<vendor_hint>>)

\* Lines 1032-1233.  Line 1041 reads answers["expectation"]; nothing uses
\* the value.
build_recommendation2(a) ==
    LET core == core_recommendation2(a)
    IN  [primary |-> core.primary,
         details |-> core.details \o cross_details2(a),
         risks |-> core.risks \o cross_risks2(a),
         alternatives |-> core.alternatives \o cross_alternatives2(a),
         methods |-> core.methods \o cross_methods2(a)]

-----------------------------------------------------------------------------
(* The Answer Records. *)

\* The first k entries of a list.
Take(s, k) == {s[i] : i \in {j \in DOMAIN s : j <= k}}

\* The records submit hands to the rule engine of revision 1 (the dict of
\* lines 719-733), every field over its enumeration.
AnswerRecords ==
    [market : Take(MARKETS, MaxMarkets),
     objective : Range(OBJECTIVES),
     ids : Range(YES_NO_NOTSURE),
     omnichannel : Range(YES_NO_NOTSURE),
     budget_level : Range(LEVELS),
     impressions_level : Range(LEVELS),
     duration : Range(DURATIONS),
     offline_data : Range(YES_NO_NOTSURE),
     expectation : Range(EXPECTATIONS),
     other_media : Range(YES_NO_NOTSURE),
     creative : Range(CREATIVES),
     niche_audience : Range(NICHE_VALUES),
     bls_timing : Range(BLS_TIMINGS)]

\* The records of revision 2 (the dict of lines 1531-1546): those of
\* revision 1 and "control".  No step of the wizard asks for control, so it
\* holds what the initialiser of line 1260 gave it.
AnswerRecords2 ==
    [market : Take(MARKETS, MaxMarkets),
     objective : Range(OBJECTIVES),
     ids : Range(YES_NO_NOTSURE),
     omnichannel : Range(YES_NO_NOTSURE),
     budget_level : Range(LEVELS),
     impressions_level : Range(LEVELS),
     duration : Range(DURATIONS),
     offline_data : Range(YES_NO_NOTSURE),
     control : {"Not sure"},
     expectation : Range(EXPECTATIONS),
     other_media : Range(YES_NO_NOTSURE),
     creative : Range(CREATIVES),
     niche_audience : Range(NICHE_VALUES),
     bls_timing : Range(BLS_TIMINGS)]

\* rec before any submit.
NoRecommendation == [primary |-> "", details |-> << >>, risks |-> << >>,
                     alternatives |-> << >>, methods |-> << >>]

-----------------------------------------------------------------------------
(* The rule engine on every Answer Record: SpecCore for revision 1,        *)
(* SpecCore2 for revision 2.  The record is drawn in the initial state and *)
(* the one action is the engine's part of the submit handler.              *)

InitCore ==
    /\ step = TOTAL_STEPS
    /\ answers = << >>
    /\ pc = "idle"
    /\ final_answers \in AnswerRecords
    /\ score = 3
    /\ status = <<"", "">>
    /\ rec = NoRecommendation
    /\ summary_lines = << >>
    /\ calls = << >>
    /\ selections = 0

\* app.py:735-745: the scorer, the status, then the builder.
Evaluate ==
    /\ pc = "idle"
    /\ score' = compute_feasibility_score(final_answers)
    /\ status' = map_score_to_status(score')
    /\ rec' = build_recommendation(final_answers)
    /\ pc' = "evaluated"
    /\ UNCHANGED <<step, answers, final_answers, summary_lines, calls, selections>>

NextCore == Evaluate

SpecCore == InitCore /\ [][NextCore]_vars

InitCore2 ==
    /\ step = TOTAL_STEPS
    /\ answers = << >>
    /\ pc = "idle"
    /\ final_answers \in AnswerRecords2
    /\ score = 3
    /\ status = <<"", "">>
    /\ rec = NoRecommendation
    /\ summary_lines = << >>
    /\ calls = << >>
    /\ selections = 0

\* app.py:1548-1558.
Evaluate2 ==
    /\ pc = "idle"
    /\ score' = compute_feasibility_score2(final_answers)
    /\ status' = map_score_to_status2(score')
    /\ rec' = build_recommendation2(final_answers)
    /\ pc' = "evaluated2"
    /\ UNCHANGED <<step, answers, final_answers, summary_lines, calls, selections>>

NextCore2 == Evaluate2

SpecCore2 == InitCore2 /\ [][NextCore2]_vars

\* Either revision's engine has run on final_answers.
Evaluated == pc \in {"evaluated", "evaluated2"}


-----------------------------------------------------------------------------
(* map_score_to_status on every integer of -ScoreRange..ScoreRange: the    *)
(* score is drawn in the initial state and each action applies the mapping *)
(* of one revision.                                                        *)

InitStatus ==
    /\ step = TOTAL_STEPS
    /\ answers = << >>
    /\ pc = "idle"
    /\ final_answers = << >>
    /\ score \in -ScoreRange..ScoreRange
    /\ status = <<"", "">>
    /\ rec = NoRecommendation
    /\ summary_lines = << >>
    /\ calls = << >>
    /\ selections = 0

\* app.py:736: status_text, status_type = map_score_to_status(score).
Classify ==
    /\ pc = "idle"
    /\ status' = map_score_to_status(score)
    /\ pc' = "classified"
    /\ UNCHANGED <<step, answers, final_answers, score, rec, summary_lines,
                 calls, selections>>

\* app.py:1549.
Classify2 ==
    /\ pc = "idle"
    /\ status' = map_score_to_status2(score)
    /\ pc' = "classified2"
    /\ UNCHANGED <<step, answers, final_answers, score, rec, summary_lines,
                 calls, selections>>

NextStatus == Classify \/ Classify2

SpecStatus == InitStatus /\ [][NextStatus]_vars

Classified == pc \in {"classified", "classified2"}

-----------------------------------------------------------------------------
(* Properties of the scorer and of the status mapping. *)

\* C1: for every Answer Record the feasibility score is >= 0, under either
\* definition of compute_feasibility_score (stated here for the score the
\* engine hands to map_score_to_status).
C1_ScoreNonNegative == Evaluated => score >= 0

\* The eleven predicates of C2, as the claim words them.
C2_predicates(a) ==
    << a.budget_level = "Low",
       a.impressions_level = "Low",
       a.duration \in {"< 1 week", "1-2 weeks"},
       a.objective = OBJ_BRAND /\ a.ids = "No",
       a.objective \in {OBJ_FOOTFALL, OBJ_SALES, OBJ_APP} /\ a.offline_data = "No",
       a.expectation = EXP_FORMAL
           /\ (a.budget_level = "Low" \/ a.impressions_level = "Low"),
       a.other_media = "Yes",
       a.creative = CREATIVE_WEAK,
       a.objective = OBJ_BRAND /\ a.niche_audience = "Yes",
       a.objective = OBJ_BRAND /\ a.bls_timing = BLS_AFTER,
       a.objective = OBJ_BRAND /\ a.omnichannel = "Yes" >>

\* How many entries of a tuple of booleans are true.
CountTrue(c) == Cardinality({i \in DOMAIN c : c[i]})

\* The score the if-statements leave when they run in the order given by
\* order (a list of indices into the conditions c), last index first.
RECURSIVE ScoreInOrder(_, _)
ScoreInOrder(c, order) ==
    IF order = << >> THEN 3
    ELSE Deduct(c[order[Len(order)]], ScoreInOrder(c, SubSeq(order, 1, Len(order) - 1)))

\* The source order of the eleven statements, reversed, and the source
\* order with the odd positions before the even ones.
ReversedOrder == [i \in 1..11 |-> 12 - i]
InterleavedOrder == [i \in 1..11 |-> IF i <= 6 THEN 2 * i - 1 ELSE 2 * (i - 6)]

\* C2: the score of revision 1 is max(0, 3 - k), k the number of the eleven
\* predicates that hold; so it lies in 0..3 and is the same in whatever
\* order the statements are evaluated.
C2_ScoreIsThreeMinusCount ==
    pc = "evaluated" =>
        LET c == risk_conditions(final_answers)
        IN  /\ score = Max(0, 3 - CountTrue(C2_predicates(final_answers)))
            /\ score \in 0..3
            /\ score = Max(ScoreInOrder(c, ReversedOrder), 0)
            /\ score = Max(ScoreInOrder(c, InterleavedOrder), 0)

\* C2's case: a record on which more than three predicates hold, so that
\* the floor acts.
C2_Witness ==
    /\ pc = "evaluated"
    /\ CountTrue(C2_predicates(final_answers)) > 3
    /\ score = 0

\* The single-field changes of C3: the field, its risky value.
RiskyFlips ==
    { <<"budget_level", "Low">>, <<"impressions_level", "Low">>,
      <<"duration", "< 1 week">>, <<"duration", "1-2 weeks">>,
      <<"ids", "No">>, <<"offline_data", "No">>,
      <<"expectation", EXP_FORMAL>>, <<"other_media", "Yes">>,
      <<"creative", CREATIVE_WEAK>>, <<"niche_audience", "Yes">>,
      <<"bls_timing", BLS_AFTER>>, <<"omnichannel", "Yes">> }

\* The risky values of a field.
RiskyValues(f) == {fl[2] : fl \in {x \in RiskyFlips : x[1] = f}}

\* The flips that apply to record a: the field holds a non-risky value.
FlipsOf(a) == {fl \in RiskyFlips : a[fl[1]] \notin RiskyValues(fl[1])}

\* C3: changing one risk-triggering field of a record from a non-risky value
\* to its risky value, all else held, never gives a higher score.
C3_Monotone ==
    pc = "evaluated" =>
        \A fl \in FlipsOf(final_answers) :
            compute_feasibility_score([final_answers EXCEPT ![fl[1]] = fl[2]]) <= score

\* C3's case: a flip that applies and lowers the score.
C3_Witness ==
    /\ pc = "evaluated"
    /\ \E fl \in FlipsOf(final_answers) :
           compute_feasibility_score([final_answers EXCEPT ![fl[1]] = fl[2]]) < score

\* The rank of a status among the four bands, 3 the best.
BandRank(st) ==
    IF st[2] = "success" THEN 3
    ELSE IF st[2] = "error" THEN 0
    ELSE IF st \in {map_score_to_status(2), map_score_to_status2(2)} THEN 2
    ELSE 1

\* The status C4 gives a score: the band and the severity.
C4_Expected(s, strong, caveats, borderline, notrec) ==
    IF s >= 3 THEN <<strong, "success">>
    ELSE IF s = 2 THEN <<caveats, "warning">>
    ELSE IF s = 1 THEN <<borderline, "warning">>
    ELSE <<notrec, "error">>

\* The status either revision's mapping gives to score t in the state's
\* revision.
StatusOf(t) == IF pc = "classified" THEN map_score_to_status(t) ELSE map_score_to_status2(t)

\* C4: map_score_to_status gives every integer one band: >= 3 Strong /
\* success, 2 Feasible with caveats / warning, 1 Borderline / warning,
\* <= 0 Not recommended / error; a lower score never gets a better band.
C4_StatusTotalOrderPreserving ==
    Classified =>
        /\ pc = "classified" =>
               status = C4_Expected(score, "Strong measurement feasible",
                                    "Feasible but with clear caveats",
                                    "Borderline - treat as directional only",
                                    "Not recommended as a formal study - directional at best")
        /\ pc = "classified2" =>
               status = C4_Expected(score, "Strong measurement feasible",
                                    "Feasible but with caveats",
                                    "Borderline - treat as directional only",
                                    "Not recommended as a formal study - directional only")
        /\ \A t \in -ScoreRange..ScoreRange :
               t <= score => BandRank(StatusOf(t)) <= BandRank(status)

\* C4's case: a score above the ceiling has been mapped.
C4_Witness == Classified /\ score > 3 /\ status[2] = "success"

-----------------------------------------------------------------------------
(* The rule engine of revision 1 on records whose values may lie outside   *)
(* the enumerations.                                                       *)

\* A value no widget offers and no test of the engine names.
UNMAPPED == "??"

\* Records with every field present: the objective any option or UNMAPPED,
\* every other field a value its tests name or UNMAPPED.
UnmappedRecords ==
    [market : {"UK", UNMAPPED},
     objective : Range(OBJECTIVES) \cup {UNMAPPED},
     ids : {"Yes", "No", UNMAPPED},
     omnichannel : {"Yes", "No", UNMAPPED},
     budget_level : {"Low", UNMAPPED},
     impressions_level : {"Low", UNMAPPED},
     duration : {"< 1 week", UNMAPPED},
     offline_data : {"Yes", "No", UNMAPPED},
     expectation : {EXP_FORMAL, UNMAPPED},
     other_media : {"Yes", UNMAPPED},
     creative : {CREATIVE_WEAK, UNMAPPED},
     niche_audience : {"Yes", UNMAPPED},
     bls_timing : {BLS_AFTER, UNMAPPED}]

InitUnmapped ==
    /\ step = TOTAL_STEPS
    /\ answers = << >>
    /\ pc = "idle"
    /\ final_answers \in UnmappedRecords
    /\ score = 3
    /\ status = <<"", "">>
    /\ rec = NoRecommendation
    /\ summary_lines = << >>
    /\ calls = << >>
    /\ selections = 0

SpecUnmapped == InitUnmapped /\ [][NextCore]_vars

\* "if test: ...": the <<line, field>> of a comparison that is evaluated and
\* true.
TestTrue(test, line, field) == IF test THEN {<<line, field>>} ELSE {}

\* The comparisons of build_recommendation (lines 216-398) that are
\* evaluated on record a and are true, each as <<line, field compared>>.
\* "x or y" evaluates y only when x is false, "x and y" only when x is true;
\* the branches of an objective are reached only under that objective.
true_tests(a) ==
    LET objective == a.objective
        ids == a.ids
        omnichannel == a.omnichannel
        budget_level == a.budget_level
        impressions_level == a.impressions_level
        duration == a.duration
        offline_data == a.offline_data
        other_media == a.other_media
        creative == a.creative
        niche == a.niche_audience
        bls_timing == a.bls_timing
        brand == objective = OBJ_BRAND
        footfall == ~brand /\ objective = OBJ_FOOTFALL
        sales == ~brand /\ ~footfall /\ objective = OBJ_SALES
        app == ~brand /\ ~footfall /\ ~sales /\ objective = OBJ_APP
    IN  TestTrue(brand, 216, "objective")
        \cup TestTrue(brand /\ ids # "Yes", 218, "ids")
        \cup TestTrue(brand /\ ~(ids # "Yes") /\ omnichannel = "Yes", 218, "omnichannel")
        \cup TestTrue(brand /\ budget_level = "Low", 237, "budget_level")
        \cup TestTrue(brand /\ bls_timing = BLS_AFTER, 248, "bls_timing")
        \cup TestTrue(brand /\ niche = "Yes", 254, "niche_audience")
        \cup TestTrue(footfall, 269, "objective")
        \cup TestTrue(footfall /\ offline_data = "Yes", 270, "offline_data")
        \cup TestTrue(footfall /\ offline_data = "Yes" /\ ids = "Yes", 271, "ids")
        \cup TestTrue(sales, 292, "objective")
        \cup TestTrue(sales /\ offline_data = "Yes", 293, "offline_data")
        \cup TestTrue(app, 312, "objective")
        \cup TestTrue(app /\ offline_data = "Yes", 313, "offline_data")
        \cup TestTrue(budget_level = "Low", 339, "budget_level")
        \cup TestTrue(budget_level = "Low", 345, "budget_level")
        \cup TestTrue(budget_level = "Low" /\ impressions_level = "Low", 345, "impressions_level")
        \cup TestTrue(impressions_level = "Low", 355, "impressions_level")
        \cup TestTrue(duration \in {"< 1 week", "1-2 weeks"}, 362, "duration")
        \cup TestTrue(budget_level = "Low", 368, "budget_level")
        \cup TestTrue(budget_level = "Low" /\ impressions_level \in {"Medium", "High"},
                  368, "impressions_level")
        \cup TestTrue(niche = "Yes", 374, "niche_audience")
        \cup TestTrue(other_media = "Yes", 381, "other_media")
        \cup TestTrue(creative = CREATIVE_WEAK, 390, "creative")
        \cup TestTrue(creative # CREATIVE_WEAK /\ creative = CREATIVE_AVERAGE, 398, "creative")

\* The fields of a record other than the objective.
OtherFields == DOMAIN final_answers \ {"objective"}

\* C5: on a record with every field present, whatever the values,
\* build_recommendation returns a non-empty primary; an objective that is
\* none of the four recognised ones gets the 'Other / not sure' primary; and
\* a value outside the enumeration in any other field makes no comparison
\* on that field true.
C5_UnmappedValuesAreInert ==
    pc = "evaluated" =>
        /\ rec.primary # ""
        /\ final_answers.objective \notin {OBJ_BRAND, OBJ_FOOTFALL, OBJ_SALES, OBJ_APP}
               => rec.primary = PRIMARY_OTHER
        /\ \A f \in OtherFields :
               final_answers[f] = UNMAPPED =>
                   \A t \in true_tests(final_answers) : t[2] # f

\* The part of C5 on the primary alone.
C5_PrimaryNeverEmpty ==
    pc = "evaluated" =>
        /\ rec.primary # ""
        /\ final_answers.objective \notin {OBJ_BRAND, OBJ_FOOTFALL, OBJ_SALES, OBJ_APP}
               => rec.primary = PRIMARY_OTHER

\* The branch an unmapped ids selects under the Brand objective with
\* omnichannel "No": the test of line 218 is true and the SHG-based primary
\* is returned, as for ids "No".
C5_UnmappedIdsSelectsShg ==
    pc = "evaluated" /\ final_answers.objective = OBJ_BRAND
        /\ final_answers.ids = UNMAPPED /\ final_answers.omnichannel = "No"
    => rec.primary = PRIMARY_BRAND_SHG

-----------------------------------------------------------------------------
(* Properties of build_recommendation, revision 1. *)

\* The risks build_recommendation returns for record a.
RisksOf(a) == Range(build_recommendation(a).risks)

\* C6: with a formal-study expectation and a low budget, risks holds an
\* entry on the mismatch of the two: an entry that is not there for the
\* same record with the directional expectation.
C6_ExpectationMismatchRisk ==
    pc = "evaluated" /\ final_answers.expectation = EXP_FORMAL
        /\ final_answers.budget_level = "Low"
    => Range(rec.risks)
           \ RisksOf([final_answers EXCEPT !.expectation = EXP_DIRECTIONAL]) # {}

\* What the code does instead: the result is the same for every
\* expectation.
C6_ExpectationIgnored ==
    pc = "evaluated" =>
        \A e \in Range(EXPECTATIONS) :
            build_recommendation([final_answers EXCEPT !.expectation = e]) = rec

\* The fields Scenarios 1 and 2 share.
ScenarioBrand(a) ==
    /\ a.objective = OBJ_BRAND
    /\ a.ids = "Yes"
    /\ a.omnichannel = "No"
    /\ a.duration = "2-4 weeks"
    /\ a.other_media = "No"
    /\ a.creative = CREATIVE_STRONG

Scenario1(a) ==
    ScenarioBrand(a) /\ a.budget_level = "Medium" /\ a.impressions_level = "Medium"

Scenario2(a) ==
    ScenarioBrand(a) /\ a.budget_level = "Low" /\ a.impressions_level = "Low"

\* C7 as stated: on every record of Scenario 2, the fields it does not pin
\* ranging over their enumerations, the score is 1, the status is the
\* 'Borderline' band and risks holds the 'Bermuda Triangle' entry.
C7_Scenario2_AsStated ==
    pc = "evaluated" /\ Scenario2(final_answers) =>
        /\ score = 1
        /\ status = <<"Borderline - treat as directional only", "warning">>
        /\ RISK_BERMUDA \in Range(rec.risks)

\* The fields Scenario 2 leaves open hold no value that costs a further
\* point.
Scenario2_NoFurtherDeduction(a) ==
    /\ a.expectation # EXP_FORMAL
    /\ a.niche_audience # "Yes"
    /\ a.bls_timing # BLS_AFTER

\* C7, amended: on every record of Scenario 2 risks holds the 'Bermuda
\* Triangle' entry; the score is 1 and the status 'Borderline' when the
\* expectation is not the formal study, the audience is not niche and the
\* Brand Lift survey is not run after the campaign, and otherwise the score
\* is 0 and the status 'Not recommended as a formal study'.
C7_Scenario2 ==
    pc = "evaluated" /\ Scenario2(final_answers) =>
        /\ RISK_BERMUDA \in Range(rec.risks)
        /\ IF Scenario2_NoFurtherDeduction(final_answers)
           THEN /\ score = 1
                /\ status = <<"Borderline - treat as directional only", "warning">>
           ELSE /\ score = 0
                /\ status = <<"Not recommended as a formal study - directional at best",
                              "error">>

\* C7's case: a record of Scenario 2 with the formal expectation has been
\* evaluated.
C7_Witness ==
    /\ pc = "evaluated"
    /\ Scenario2(final_answers)
    /\ final_answers.expectation = EXP_FORMAL
    /\ score = 0
    /\ RISK_BERMUDA \in Range(rec.risks)

\* C8 as stated: on every record of Scenario 1, the fields it does not pin
\* ranging over their enumerations, the score is 3, the status is the
\* 'Strong' band and primary is the ID-based Brand Lift Study.
C8_Scenario1_AsStated ==
    pc = "evaluated" /\ Scenario1(final_answers) =>
        /\ score = 3
        /\ status = <<"Strong measurement feasible", "success">>
        /\ rec.primary = PRIMARY_BRAND_ID

\* The points a record of Scenario 1 loses: one for a niche audience, one
\* for a Brand Lift survey run after the campaign.
Scenario1_Deductions(a) ==
    (IF a.niche_audience = "Yes" THEN 1 ELSE 0) + (IF a.bls_timing = BLS_AFTER THEN 1 ELSE 0)

\* C8, amended: on every record of Scenario 1 primary is the ID-based Brand
\* Lift Study; the score is 3 less one point for a niche audience and one
\* for a survey run after the campaign, so it is 3 and the status 'Strong'
\* exactly when neither holds; the expectation, offline_data and the market
\* do not change it.
C8_Scenario1 ==
    pc = "evaluated" /\ Scenario1(final_answers) =>
        /\ rec.primary = PRIMARY_BRAND_ID
        /\ score = 3 - Scenario1_Deductions(final_answers)
        /\ status = map_score_to_status(score)
        /\ (score = 3 /\ status = <<"Strong measurement feasible", "success">>)
               <=> Scenario1_Deductions(final_answers) = 0

\* C8's case: a record of Scenario 1 with a niche audience has been
\* evaluated.
C8_Witness ==
    /\ pc = "evaluated"
    /\ Scenario1(final_answers)
    /\ final_answers.niche_audience = "Yes"
    /\ score < 3
    /\ rec.primary = PRIMARY_BRAND_ID

\* The methods of the Footfall branch that name an uplift study.
FootfallUpliftMethods == {METHOD_FOOTFALL_ID, METHOD_FOOTFALL_ID_SHG, METHOD_FOOTFALL_SHG}

\* C9: with the Footfall objective and no offline data, whatever the other
\* fields, primary is the reach/catchment proxy, methods holds the
\* catchment-reach reporting and no uplift-study method, and alternatives
\* holds the suggestion to enable store-visit data.
C9_Scenario3 ==
    pc = "evaluated" /\ final_answers.objective = OBJ_FOOTFALL
        /\ final_answers.offline_data = "No"
    => /\ rec.primary = PRIMARY_FOOTFALL_PROXY
       /\ rec.primary \notin {PRIMARY_FOOTFALL_ID, PRIMARY_FOOTFALL_SHG}
       /\ METHOD_FOOTFALL_REACH \in Range(rec.methods)
       /\ Range(rec.methods) \cap FootfallUpliftMethods = {}
       /\ ALT_STORE_VISIT_DATA \in Range(rec.alternatives)

\* C9's case.
C9_Witness ==
    /\ pc = "evaluated"
    /\ final_answers.objective = OBJ_FOOTFALL
    /\ final_answers.offline_data = "No"
    /\ final_answers.ids = "Yes"
    /\ rec.primary = PRIMARY_FOOTFALL_PROXY

\* C10: with weak creative, whatever the objective and the other fields,
\* risks holds the creative-quality risk and alternatives the
\* creative-improvement suggestion; with any other creative neither is
\* there.
C10_Scenario6 ==
    pc = "evaluated" =>
        /\ RISK_CREATIVE \in Range(rec.risks) <=> final_answers.creative = CREATIVE_WEAK
        /\ ALT_CREATIVE \in Range(rec.alternatives)
               <=> final_answers.creative = CREATIVE_WEAK

\* C10's case: weak creative under an objective other than Brand.
C10_Witness ==
    /\ pc = "evaluated"
    /\ final_answers.creative = CREATIVE_WEAK
    /\ final_answers.objective = OBJ_SALES
    /\ RISK_CREATIVE \in Range(rec.risks)
    /\ ALT_CREATIVE \in Range(rec.alternatives)

-----------------------------------------------------------------------------
(* Properties of the decision table, revision 1. *)

\* Identifiers are available and the campaign is not omnichannel.
IdsAndNotOmnichannel(a) == a.ids = "Yes" /\ a.omnichannel # "Yes"

\* C11: under the Brand objective the ID-based lift study, with the ID
\* method followed by the SHG and survey fallbacks, is selected exactly
\* when identifiers are available and the campaign is not omnichannel, and
\* the SHG-based lift, with the SHG method followed by the survey fallback,
\* exactly when they are not or it is; over ids and omnichannel in
\* {Yes, No, Not sure} one and only one of the two is selected.
C11_BrandBranches ==
    pc = "evaluated" /\ final_answers.objective = OBJ_BRAND =>
        LET id_based == /\ rec.primary = PRIMARY_BRAND_ID
                        /\ rec.methods = <<METHOD_BRAND_ID, METHOD_BRAND_ID_SHG,
                                           METHOD_BRAND_ID_ODR>>
            shg_based == /\ rec.primary = PRIMARY_BRAND_SHG
                         /\ rec.methods = <<METHOD_BRAND_SHG, METHOD_BRAND_SHG_ODR>>
        IN  /\ id_based <=> IdsAndNotOmnichannel(final_answers)
            /\ shg_based <=> ~IdsAndNotOmnichannel(final_answers)
            /\ id_based # shg_based

\* C11's case: identifiers available, omnichannel not known.
C11_Witness ==
    /\ pc = "evaluated"
    /\ final_answers.objective = OBJ_BRAND
    /\ final_answers.ids = "Yes"
    /\ final_answers.omnichannel = "Not sure"
    /\ rec.primary = PRIMARY_BRAND_ID

\* C12: for the Sales objective without offline data and for the App
\* installs objective without app data the returned methods list is empty.
C12_NoMethodsWithoutData ==
    pc = "evaluated" /\ final_answers.objective \in {OBJ_SALES, OBJ_APP}
        /\ final_answers.offline_data # "Yes"
    => rec.methods = << >>

\* What the code returns in the two rows: no method for Sales, the
\* attribution method for App installs.
C12_MethodsWithoutData ==
    pc = "evaluated" /\ final_answers.offline_data # "Yes" =>
        /\ final_answers.objective = OBJ_SALES => rec.methods = << >>
        /\ final_answers.objective = OBJ_APP => rec.methods = <<METHOD_APP_ATTRIBUTION>>

\* The score before any floor, of the revision that ran.
RawScoreOf(a) ==
    IF pc = "evaluated2" THEN compute_feasibility_score2(a) ELSE raw_score(a)

\* C13: the 'no offline data' deduction is taken exactly when the objective
\* is Footfall or Sales and offline_data is "No": the score before the
\* floor is that of the record with offline_data "Yes", less one point in
\* that case and equal to it in every other, so that under the Brand, App
\* installs and Other objectives offline_data does not change the score.
C13_OfflineDeduction ==
    Evaluated =>
        /\ RawScoreOf(final_answers)
               = RawScoreOf([final_answers EXCEPT !.offline_data = "Yes"])
                 - (IF final_answers.objective \in {OBJ_FOOTFALL, OBJ_SALES}
                       /\ final_answers.offline_data = "No" THEN 1 ELSE 0)
        /\ final_answers.objective \notin {OBJ_FOOTFALL, OBJ_SALES} =>
               \A v \in Range(YES_NO_NOTSURE) :
                   (IF pc = "evaluated2"
                    THEN compute_feasibility_score2([final_answers EXCEPT !.offline_data = v])
                    ELSE compute_feasibility_score([final_answers EXCEPT !.offline_data = v]))
                   = score

-----------------------------------------------------------------------------
(* Both revisions of the rule engine on the same records: SpecEngines on   *)
(* records that range over every field but the market, SpecMarket on       *)
(* records that range over every market.                                   *)

\* The records of SpecEngines: every field over its enumeration, the market
\* one without and one with the caveat of line 1218.
EngineRecords ==
    [market : {"UK", "India"},
     objective : Range(OBJECTIVES),
     ids : Range(YES_NO_NOTSURE),
     omnichannel : Range(YES_NO_NOTSURE),
     budget_level : Range(LEVELS),
     impressions_level : Range(LEVELS),
     duration : Range(DURATIONS),
     offline_data : Range(YES_NO_NOTSURE),
     control : {"Not sure"},
     expectation : Range(EXPECTATIONS),
     other_media : Range(YES_NO_NOTSURE),
     creative : Range(CREATIVES),
     niche_audience : Range(NICHE_VALUES),
     bls_timing : Range(BLS_TIMINGS)]

InitEngines ==
    /\ step = TOTAL_STEPS
    /\ answers = << >>
    /\ pc = "idle"
    /\ final_answers \in EngineRecords
    /\ score = 3
    /\ status = <<"", "">>
    /\ rec = NoRecommendation
    /\ summary_lines = << >>
    /\ calls = << >>
    /\ selections = 0

NextEngines == Evaluate \/ Evaluate2

SpecEngines == InitEngines /\ [][NextEngines]_vars

\* The records of SpecMarket: every market of MARKETS and one that is not a
\* key of it, every objective, ids, omnichannel, offline_data and
\* budget_level over their enumerations, and the other fields as the
\* initialiser of lines 1248-1267 sets them.
MarketRecords ==
    [market : Range(MARKETS) \cup {UNMAPPED},
     objective : Range(OBJECTIVES),
     ids : Range(YES_NO_NOTSURE),
     omnichannel : Range(YES_NO_NOTSURE),
     budget_level : Range(LEVELS),
     impressions_level : {"Medium"},
     duration : {"2-4 weeks"},
     offline_data : Range(YES_NO_NOTSURE),
     control : {"Not sure"},
     expectation : {EXP_DIRECTIONAL},
     other_media : {"Not sure"},
     creative : {CREATIVE_AVERAGE},
     niche_audience : {"No"},
     bls_timing : {BLS_DURING}]

InitMarket ==
    /\ step = TOTAL_STEPS
    /\ answers = << >>
    /\ pc = "idle"
    /\ final_answers \in MarketRecords
    /\ score = 3
    /\ status = <<"", "">>
    /\ rec = NoRecommendation
    /\ summary_lines = << >>
    /\ calls = << >>
    /\ selections = 0

SpecMarket == InitMarket /\ [][NextEngines]_vars

\* Phase 1 and the whole result of the revision that ran, on record a.
Phase1Of(a) == IF pc = "evaluated2" THEN core_recommendation2(a) ELSE core_recommendation(a)
ResultOf(a) == IF pc = "evaluated2" THEN build_recommendation2(a) ELSE build_recommendation(a)

\* Record a with the four fields that select the primary methodology set to
\* fixed values.
FixedSelection(a) ==
    [a EXCEPT !.objective = OBJ_OTHER, !.ids = "Yes", !.offline_data = "Yes",
              !.omnichannel = "No"]

\* What follows the first n entries of a list.
Rest(list, n) == SubSeq(list, n + 1, Len(list))

\* The entries the cross-cutting pass appended to list l of the result on
\* record a: what follows the entries of Phase 1.
Phase2Entries(a, l) == Rest(ResultOf(a)[l], Len(Phase1Of(a)[l]))

\* C14: the cross-cutting pass does not depend on the choice of Phase 1: in
\* risks, alternatives and details its entries come after all entries of
\* Phase 1 and are, in the same order, those appended for the record with
\* the same other fields and a fixed objective, ids, offline_data and
\* omnichannel; so any two records that differ in these four fields only
\* get the same entries.
C14_Phase2Independent ==
    Evaluated =>
        \A l \in {"risks", "alternatives", "details"} :
            /\ SubSeq(rec[l], 1, Len(Phase1Of(final_answers)[l])) = Phase1Of(final_answers)[l]
            /\ Phase2Entries(final_answers, l) = Phase2Entries(FixedSelection(final_answers), l)

\* C14's case: a Brand record for which both phases append risks and the
\* cross-cutting pass appends a detail and an alternative.
C14_Witness ==
    /\ Evaluated
    /\ final_answers.objective = OBJ_BRAND
    /\ final_answers.budget_level = "Low"
    /\ final_answers.impressions_level = "Low"
    /\ final_answers.creative = CREATIVE_AVERAGE
    /\ Phase1Of(final_answers).risks # << >>
    /\ \A l \in {"risks", "alternatives", "details"} : Phase2Entries(final_answers, l) # << >>

\* The market caveat of the revision that ran.
MarketCaveat == IF pc = "evaluated2" THEN RISK_MARKET2 ELSE RISK_MARKET

\* C15: the market caveat is in risks exactly for the markets India, Asia
\* and Other, and is not there for US, UK, EU, AU, NZ, Benelux and Italy.
C15_MarketCaveat ==
    Evaluated =>
        (MarketCaveat \in Range(rec.risks)
            <=> final_answers.market \in {"India", "Asia", "Other"})

\* What revision 1 does: the market note is in risks for every market.
C15_MarketNoteAlways == pc = "evaluated" => RISK_MARKET \in Range(rec.risks)

\* C16: the vendor hint is appended as the last entry of methods exactly
\* when it is not empty: for each of the ten markets and each of the four
\* recognised objectives it is not empty and methods is that of Phase 1
\* with the one line more; for the Other objective or a market that is not
\* in the table it is empty and methods is that of Phase 1.
C16_VendorHint ==
    pc = "evaluated2" =>
        LET hint == get_vendor_hint(final_answers.market, final_answers.objective)
            phase1 == core_recommendation2(final_answers).methods
            in_table == /\ final_answers.market \in Range(MARKETS)
                        /\ final_answers.objective
                               \in {OBJ_BRAND, OBJ_FOOTFALL, OBJ_SALES, OBJ_APP}
        IN  /\ hint # "" <=> in_table
            /\ in_table => /\ rec.methods = phase1 \o <<hint>>
                           /\ rec.methods[Len(rec.methods)] = hint
                           /\ Cardinality({i \in DOMAIN rec.methods : rec.methods[i] = hint}) = 1
            /\ ~in_table => rec.methods = phase1

\* C16's case: a hint has been appended after the methods of Phase 1.
C16_Witness ==
    /\ pc = "evaluated2"
    /\ final_answers.market = "Italy"
    /\ final_answers.objective = OBJ_FOOTFALL
    /\ Len(rec.methods) > 1
    /\ rec.methods[Len(rec.methods)] = FOOTFALL_HINTS["Italy"]

-----------------------------------------------------------------------------
(* The session: the answers dict, the band labels and the levels computed  *)
(* from them.                                                              *)

\* MARKETS[market]["currency_symbol"] (lines 32-41), the pound, euro and
\* rupee signs written "GBP ", "EUR " and "INR ".
CURRENCY_SYMBOL ==
    "US" :> "$" @@ "UK" :> "GBP " @@ "EU" :> "EUR " @@ "AU" :> "A$" @@ "NZ" :> "NZ$"
    @@ "Asia" :> "" @@ "Benelux" :> "EUR " @@ "Italy" :> "EUR " @@ "India" :> "INR "
    @@ "Other" :> ""

\* MARKETS[market], as far as the wizard reads it.
MARKET_INFO(market) == [currency_symbol |-> CURRENCY_SYMBOL[market]]

\* app.py:45-60.
get_budget_band_labels(market_info) ==
    LET cur == market_info.currency_symbol
    IN  IF cur = ""
        THEN <<"Low (may be under 30k - below core measurement thresholds)", "Medium (around 30k-100k)", "High (100k+)">>
        ELSE <<"Low (" \o cur \o "0-" \o cur \o "30k - may be under 30k threshold)",
               "Medium (" \o cur \o "30k-" \o cur \o "100k)",
               "High (" \o cur \o "100k+)">>

\* The options of the step-6 selectbox (line 583).
IMPRESSION_OPTIONS == <<"< 100k", "100k-500k", "500k-1M", "1M+">>

\* "needle in label.lower()" on the band labels of steps 5 and 6: the pairs
\* <<label, needle>> for which Python's substring test is true.  None of
\* the labels contains "0-" after a digit or "50k-".
SUBSTRINGS ==
    { <<"Low ($0-$30k - may be under 30k threshold)", "low">>,
      <<"High ($100k+)", "high">>,
      <<"Low (GBP 0-GBP 30k - may be under 30k threshold)", "low">>,
      <<"High (GBP 100k+)", "high">>,
      <<"Low (EUR 0-EUR 30k - may be under 30k threshold)", "low">>,
      <<"High (EUR 100k+)", "high">>,
      <<"Low (A$0-A$30k - may be under 30k threshold)", "low">>,
      <<"High (A$100k+)", "high">>,
      <<"Low (NZ$0-NZ$30k - may be under 30k threshold)", "low">>,
      <<"High (NZ$100k+)", "high">>,
      <<"Low (may be under 30k - below core measurement thresholds)", "low">>,
      <<"High (100k+)", "high">>,
      <<"Low (INR 0-INR 30k - may be under 30k threshold)", "low">>,
      <<"High (INR 100k+)", "high">>,
      <<"< 100k", "<">>,
      <<"100k-500k", "100k-">> }

LowerContains(label, needle) == <<label, needle>> \in SUBSTRINGS

\* app.py:63-69.
get_budget_level(budget_label) ==
    IF LowerContains(budget_label, "low") THEN "Low"
    ELSE IF LowerContains(budget_label, "high") THEN "High"
    ELSE "Medium"

\* A variant of get_impression_level: a label with no Low pattern and no
\* Medium pattern is given Medium.
get_impression_level_else_medium(imp_label) ==
    IF LowerContains(imp_label, "<") \/ LowerContains(imp_label, "0-") THEN "Low"
    ELSE "Medium"

\* app.py:72-84.
get_impression_level(imp_label) ==
    IF LowerContains(imp_label, "<") \/ LowerContains(imp_label, "0-") THEN "Low"
    ELSE IF LowerContains(imp_label, "100k-") \/ LowerContains(imp_label, "50k-") THEN "Medium"
    ELSE "High"

\* app.py:435-453: st.session_state.answers as the first script run sets it.
InitialAnswers ==
    [market |-> "UK",
     objective |-> OBJ_BRAND,
     ids |-> "Not sure",
     omnichannel |-> "Not sure",
     budget_label |-> "",
     budget_level |-> "Medium",
     impressions_label |-> "",
     impressions_level |-> "Medium",
     duration |-> "2-4 weeks",
     offline_data |-> "Not sure",
     expectation |-> EXP_DIRECTIONAL,
     other_media |-> "Not sure",
     creative |-> CREATIVE_AVERAGE,
     niche_audience |-> "No",
     bls_timing |-> BLS_DURING,
     show_analyst_view |-> FALSE]

\* app.py:1247-1267: the initialiser of revision 2, with "control".
InitialAnswers2 ==
    [market |-> "UK",
     objective |-> OBJ_BRAND,
     ids |-> "Not sure",
     omnichannel |-> "Not sure",
     budget_label |-> "",
     budget_level |-> "Medium",
     impressions_label |-> "",
     impressions_level |-> "Medium",
     duration |-> "2-4 weeks",
     offline_data |-> "Not sure",
     control |-> "Not sure",
     expectation |-> EXP_DIRECTIONAL,
     other_media |-> "Not sure",
     creative |-> CREATIVE_AVERAGE,
     niche_audience |-> "No",
     bls_timing |-> BLS_DURING,
     show_analyst_view |-> FALSE]

-----------------------------------------------------------------------------
(* The submit handler of step 14 and the text export it builds. *)

\* app.py:719-733: the dict handed to the rule engine.
FinalAnswers(a) ==
    [market |-> a.market,
     objective |-> a.objective,
     ids |-> a.ids,
     omnichannel |-> a.omnichannel,
     budget_level |-> a.budget_level,
     impressions_level |-> a.impressions_level,
     duration |-> a.duration,
     offline_data |-> a.offline_data,
     expectation |-> a.expectation,
     other_media |-> a.other_media,
     creative |-> a.creative,
     niche_audience |-> a.niche_audience,
     bls_timing |-> a.bls_timing]

\* app.py:1531-1546: reads answers["control"] as well.
FinalAnswers2(a) ==
    [market |-> a.market,
     objective |-> a.objective,
     ids |-> a.ids,
     omnichannel |-> a.omnichannel,
     budget_level |-> a.budget_level,
     impressions_level |-> a.impressions_level,
     duration |-> a.duration,
     offline_data |-> a.offline_data,
     control |-> a.control,
     expectation |-> a.expectation,
     other_media |-> a.other_media,
     creative |-> a.creative,
     niche_audience |-> a.niche_audience,
     bls_timing |-> a.bls_timing]

\* "x or y" on two strings.
Or(x, y) == IF x # "" THEN x ELSE y

\* for x in lst: summary_lines.append(f"- {x}")
Bullets(lst) == [i \in DOMAIN lst |-> "- " \o lst[i]]

\* if lst: append "", the title and the bullets.
Section(title, lst) == IF lst # << >> THEN <<"", title>> \o Bullets(lst) ELSE << >>

TITLE_PRIMARY == "Recommended primary approach:"
TITLE_METHODS == "Suggested study types and thresholds:"
TITLE_RISKS == "Key risks and limiting factors to keep in mind:"
TITLE_ALTERNATIVES == "Fallback options / backup plans:"
CLOSING_NOTE == "Overall framing: position this as the most responsible measurement route given the budget, delivery, audience and data constraints. Be clear on what this setup can answer confidently and where results may be directional or sample-limited."
TITLE_PRIMARY2 == "Recommended approach:"
TITLE_METHODS2 == "Suggested study types / vendor notes:"
TITLE_RISKS2 == "Key risks / limitations:"
TITLE_ALTERNATIVES2 == "Fallback options / backup plans:"

\* app.py:782-795: the header of the export.
summary_header(fa, a, status_text) ==
    <<"Blis Measurement Recommendation",
      "-------------------------------",
      "Market: " \o fa.market,
      "Objective: " \o fa.objective,
      "Client expectation: " \o fa.expectation,
      "IDs available: " \o fa.ids,
      "Omnichannel: " \o fa.omnichannel,
      "Budget band: " \o Or(a.budget_label, fa.budget_level),
      "Planned impressions band: " \o Or(a.impressions_label, fa.impressions_level),
      "Duration: " \o fa.duration,
      "Niche / B2B audience: " \o fa.niche_audience,
      "Other media in the mix: " \o fa.other_media,
      "Creative quality: " \o fa.creative,
      "Feasibility classification: " \o status_text>>

\* app.py:780-823: summary_lines.
build_summary_lines(fa, a, status_text, r) ==
    summary_header(fa, a, status_text)
    \o <<"", TITLE_PRIMARY, "- " \o r.primary>>
    \o Section(TITLE_METHODS, r.methods)
    \o Section(TITLE_RISKS, r.risks)
    \o Section(TITLE_ALTERNATIVES, r.alternatives)
    \o <<"", CLOSING_NOTE>>

\* app.py:1586-1592: the header of the export of revision 2.
summary_header2(fa, status_text) ==
    <<"Blis Measurement Recommendation",
      "-------------------------------",
      "Market: " \o fa.market,
      "Objective: " \o fa.objective,
      "Client expectation: " \o fa.expectation,
      "Creative quality: " \o fa.creative,
      "Niche audience: " \o fa.niche_audience,
      "Feasibility: " \o status_text>>

\* app.py:1586-1616: summary_lines of revision 2.
build_summary_lines2(fa, status_text, r) ==
    summary_header2(fa, status_text)
    \o <<"", TITLE_PRIMARY2, "- " \o r.primary>>
    \o Section(TITLE_METHODS2, r.methods)
    \o Section(TITLE_RISKS2, r.risks)
    \o Section(TITLE_ALTERNATIVES2, r.alternatives)

\* A variant of HANDLER_CALLS: the builder is called before the scorer.
HANDLER_CALLS_builder_first ==
    <<"build_recommendation", "compute_feasibility_score", "map_score_to_status">>

\* The calls of the handler, in the order of lines 735, 736 and 745.
HANDLER_CALLS ==
    <<"compute_feasibility_score", "map_score_to_status", "build_recommendation">>

\* app.py:714-829: the script run of a click on "Get measurement
\* recommendation".  The checkbox of line 714 writes back the value it was
\* given; the blocks of lines 750-773 only display rec.
Submit ==
    /\ step = TOTAL_STEPS
    /\ final_answers' = FinalAnswers(answers)
    /\ score' = compute_feasibility_score(final_answers')
    /\ status' = map_score_to_status(score')
    /\ rec' = build_recommendation(final_answers')
    /\ summary_lines' = build_summary_lines(final_answers', answers, status'[1], rec')
    /\ calls' = HANDLER_CALLS
    /\ pc' = "submitted"
    /\ UNCHANGED <<step, answers, selections>>

\* What a script run that ends in an exception, or that does not reach the
\* handler, leaves of the handler's variables.
NoResult ==
    /\ final_answers' = << >>
    /\ score' = 3
    /\ status' = <<"", "">>
    /\ rec' = NoRecommendation
    /\ summary_lines' = << >>
    /\ calls' = << >>

\* app.py:1525-1623: the handler of revision 2.  answers["control"] of line
\* 1540 raises KeyError on a session the initialiser of line 435 made.
Submit2 ==
    /\ step = TOTAL_STEPS
    /\ IF "control" \in DOMAIN answers
       THEN /\ final_answers' = FinalAnswers2(answers)
            /\ score' = compute_feasibility_score2(final_answers')
            /\ status' = map_score_to_status2(score')
            /\ rec' = build_recommendation2(final_answers')
            /\ summary_lines' = build_summary_lines2(final_answers', status'[1], rec')
            /\ calls' = HANDLER_CALLS
            /\ pc' = "submitted2"
       ELSE /\ NoResult
            /\ pc' = "KeyError"
    /\ UNCHANGED <<step, answers, selections>>

Submitted == pc \in {"submitted", "submitted2"}

-----------------------------------------------------------------------------
(* The submit handlers on sessions that have reached step 14. *)

\* The markets of the sessions of SpecExport: one with a currency symbol,
\* one without.
ExportMarkets == {"UK", "Asia"}

\* Sessions at step 14 made from the initial answers `base`: the fields the
\* export prints or the lists depend on hold what steps 1-11 can have
\* stored (step 3 stores "Yes" or "No"; the band labels are those of the
\* market), the other fields what the initialiser set.
SessionsFrom(base) ==
    { [base EXCEPT !.market = m, !.objective = o, !.ids = i, !.omnichannel = om,
                   !.offline_data = od,
                   !.budget_label = get_budget_band_labels(MARKET_INFO(m))[b],
                   !.budget_level = get_budget_level(get_budget_band_labels(MARKET_INFO(m))[b]),
                   !.impressions_label = il,
                   !.impressions_level = get_impression_level(il),
                   !.creative = c, !.niche_audience = n, !.other_media = ot] :
        m \in ExportMarkets, o \in Range(OBJECTIVES), i \in Range(YES_NO_NOTSURE),
        om \in {"Yes", "No"}, od \in Range(YES_NO_NOTSURE), b \in 1..3,
        il \in Range(IMPRESSION_OPTIONS), c \in Range(CREATIVES),
        n \in Range(NICHE_VALUES), ot \in Range(YES_NO_NOTSURE) }

\* Sessions the initialiser of revision 1 made (no "control") and sessions
\* the initialiser of revision 2 made.
ExportSessions == SessionsFrom(InitialAnswers) \cup SessionsFrom(InitialAnswers2)

InitExport ==
    /\ step = TOTAL_STEPS
    /\ answers \in ExportSessions
    /\ pc = "idle"
    /\ final_answers = << >>
    /\ score = 3
    /\ status = <<"", "">>
    /\ rec = NoRecommendation
    /\ summary_lines = << >>
    /\ calls = << >>
    /\ selections = 0

NextExport == Submit \/ Submit2

SpecExport == InitExport /\ [][NextExport]_vars

\* The section titles of the revision that ran, in the order of C17, and
\* the lists they head.
ExportTitles ==
    IF pc = "submitted2"
    THEN <<TITLE_PRIMARY2, TITLE_METHODS2, TITLE_RISKS2, TITLE_ALTERNATIVES2>>
    ELSE <<TITLE_PRIMARY, TITLE_METHODS, TITLE_RISKS, TITLE_ALTERNATIVES>>

ExportLists == <<<<rec.primary>>, rec.methods, rec.risks, rec.alternatives>>

\* The first line of the export that is x, 0 if there is none.
Position(x) ==
    IF \E i \in DOMAIN summary_lines : summary_lines[i] = x
    THEN CHOOSE i \in DOMAIN summary_lines :
             /\ summary_lines[i] = x
             /\ \A j \in 1..(i - 1) : summary_lines[j] # x
    ELSE 0

\* The line on which section k ends.
SectionEnd(k) == Position(ExportTitles[k]) + Len(ExportLists[k])

\* The sections of C17 whose list is not empty.
PresentSections == {k \in 1..4 : ExportLists[k] # << >>}

\* The export begins with the header and its echoed answers, and the
\* sections primary, methods, risks, alternatives follow in this order, a
\* section being there exactly when its list is not empty and holding the
\* entries of the list in its order.
ExportSectionsInOrder ==
    /\ summary_lines[1] = "Blis Measurement Recommendation"
    /\ summary_lines[3] = "Market: " \o final_answers.market
    /\ summary_lines[4] = "Objective: " \o final_answers.objective
    /\ \A k \in 1..4 :
           /\ Position(ExportTitles[k]) # 0 <=> k \in PresentSections
           /\ k \in PresentSections =>
                  /\ Position(ExportTitles[k]) > 4
                  /\ summary_lines[Position(ExportTitles[k]) - 1] = ""
                  /\ SubSeq(summary_lines, Position(ExportTitles[k]) + 1, SectionEnd(k))
                         = Bullets(ExportLists[k])
    /\ \A j, k \in PresentSections : j < k => SectionEnd(j) < Position(ExportTitles[k])

\* The last line of the export is a closing note: a line that follows the
\* last section and a blank line.
ExportEndsWithClosingNote ==
    LET n == Len(summary_lines)
    IN  /\ \A k \in PresentSections : SectionEnd(k) < n - 1
        /\ summary_lines[n - 1] = ""
        /\ summary_lines[n] # ""

\* C17: the export has the section order header, primary approach,
\* methods, risks, alternatives, closing framing note as the last line; the
\* section of an empty list is left out and the entries of a section keep
\* the order of the list.
C17_ExportOrder ==
    Submitted => ExportSectionsInOrder /\ ExportEndsWithClosingNote

\* What holds of both revisions: the order of the sections.
C17_SectionsInOrder == Submitted => ExportSectionsInOrder

\* What holds of revision 1: its export ends with the framing note.
C17_ClosingNoteRevision1 ==
    pc = "submitted" =>
        /\ ExportEndsWithClosingNote
        /\ summary_lines[Len(summary_lines)] = CLOSING_NOTE

\* What revision 2 does: its export ends with the last entry of the last
\* section.
C17_NoClosingNoteRevision2 ==
    pc = "submitted2" =>
        \E k \in PresentSections :
            /\ SectionEnd(k) = Len(summary_lines)
            /\ \A j \in PresentSections : j <= k

-----------------------------------------------------------------------------
(* The wizard of revision 1: steps 1-13, the navigation and the submit.    *)
(* A script run writes the value of the current step's widget into         *)
(* answers: the option the user has just chosen or, without a choice, the  *)
(* option at the index the script computed from the stored value.          *)

\* How many times the user changes a widget in one session.
MaxSelections == 2

OMNI_YES == "Yes - includes channels where we do not have IDs (audio, OOH, CTV, off-platform)"
OMNI_NO == "No - all key activity is ID-based / in-app display"
OMNI_NOT_SURE == "Not sure"
NICHE_NO == "No - relatively broad consumer audience"
NICHE_YES == "Yes - niche/B2B (for example, ultra high net worth, B2B decision makers)"
BLS_OPTION_DURING == "During main body of campaign (good spread of exposure)"
BLS_OPTION_AFTER == "After/close to the end of campaign"
BLS_OPTION_NONE == "Not planning Brand Lift / not sure"

\* s.startswith(prefix) on the strings the steps test: the pairs
\* <<s, prefix>> for which it is true.  "Not sure" starts with "No".
PREFIXES ==
    { <<OMNI_YES, "Yes">>, <<OMNI_NO, "No">>, <<OMNI_NOT_SURE, "No">>,
      <<NICHE_YES, "Yes">>,
      <<BLS_OPTION_DURING, "During">>, <<BLS_OPTION_AFTER, "After">>,
      <<BLS_DURING, "During">>, <<BLS_AFTER, "After">> }

StartsWith(s, prefix) == <<s, prefix>> \in PREFIXES

\* options.index(x)
IndexOf(options, x) == CHOOSE i \in DOMAIN options : options[i] = x

\* The options of the widget of step k (lines 481, 504, 514-518, 541-547,
\* 563, 583, 598, 611, 623-626, 638, 651-655, 669-673, 696-700).
widget_options(k, a) ==
    CASE k = 1 -> MARKETS
      [] k = 2 -> YES_NO_NOTSURE
      [] k = 3 -> <<OMNI_YES, OMNI_NO, OMNI_NOT_SURE>>
      [] k = 4 -> OBJECTIVES
      [] k = 5 -> get_budget_band_labels(MARKET_INFO(a.market))
      [] k = 6 -> IMPRESSION_OPTIONS
      [] k = 7 -> DURATIONS
      [] k = 8 -> YES_NO_NOTSURE
      [] k = 9 -> <<NICHE_NO, NICHE_YES>>
      [] k = 10 -> YES_NO_NOTSURE
      [] k = 11 -> CREATIVES
      [] k = 12 -> <<BLS_OPTION_DURING, BLS_OPTION_AFTER, BLS_OPTION_NONE>>
      [] k = 13 -> EXPECTATIONS

\* The index the script gives the widget of step k, counted from 1.
default_index(k, a) ==
    CASE k = 1 -> IndexOf(MARKETS, a.market)
      [] k = 2 -> IndexOf(YES_NO_NOTSURE, a.ids)
      [] k = 3 -> IF a.omnichannel = "Yes" THEN 1
                  ELSE IF a.omnichannel = "No" THEN 2 ELSE 3
      [] k = 4 -> IndexOf(OBJECTIVES, a.objective)
      [] k = 5 -> IF a.budget_label # "" /\ a.budget_label \in Range(widget_options(5, a))
                  THEN IndexOf(widget_options(5, a), a.budget_label) ELSE 2
      [] k = 6 -> IF a.impressions_label # ""
                     /\ a.impressions_label \in Range(IMPRESSION_OPTIONS)
                  THEN IndexOf(IMPRESSION_OPTIONS, a.impressions_label) ELSE 2
      [] k = 7 -> IF a.duration \in Range(DURATIONS)
                  THEN IndexOf(DURATIONS, a.duration) ELSE 3
      [] k = 8 -> IndexOf(YES_NO_NOTSURE, a.offline_data)
      [] k = 9 -> IF a.niche_audience = "No" THEN 1 ELSE 2
      [] k = 10 -> IndexOf(YES_NO_NOTSURE, a.other_media)
      [] k = 11 -> IndexOf(CREATIVES, a.creative)
      [] k = 12 -> IF StartsWith(a.bls_timing, "During") THEN 1
                   ELSE IF StartsWith(a.bls_timing, "After") THEN 2 ELSE 3
      [] k = 13 -> IndexOf(EXPECTATIONS, a.expectation)

\* A variant of omnichannel_value: the option is stored as chosen.
omnichannel_value_raw(choice) == choice

\* Lines 526-531: what step 3 stores for the chosen option.
omnichannel_value(choice) ==
    IF StartsWith(choice, "Yes") THEN "Yes"
    ELSE IF StartsWith(choice, "No") THEN "No"
    ELSE "Not sure"

\* Line 629.
niche_value(niche) == IF StartsWith(niche, "Yes") THEN "Yes" ELSE "No"

\* Lines 682-687.
bls_timing_value(choice) ==
    IF StartsWith(choice, "During") THEN BLS_DURING
    ELSE IF StartsWith(choice, "After") THEN BLS_AFTER
    ELSE BLS_NONE

\* answers after the script of step k has stored the widget's value.
store(k, a, choice) ==
    CASE k = 1 -> [a EXCEPT !.market = choice]
      [] k = 2 -> [a EXCEPT !.ids = choice]
      [] k = 3 -> [a EXCEPT !.omnichannel = omnichannel_value(choice)]
      [] k = 4 -> [a EXCEPT !.objective = choice]
      [] k = 5 -> [a EXCEPT !.budget_label = choice,
                            !.budget_level = get_budget_level(choice)]
      [] k = 6 -> [a EXCEPT !.impressions_label = choice,
                            !.impressions_level = get_impression_level(choice)]
      [] k = 7 -> [a EXCEPT !.duration = choice]
      [] k = 8 -> [a EXCEPT !.offline_data = choice]
      [] k = 9 -> [a EXCEPT !.niche_audience = niche_value(choice)]
      [] k = 10 -> [a EXCEPT !.other_media = choice]
      [] k = 11 -> [a EXCEPT !.creative = choice]
      [] k = 12 -> [a EXCEPT !.bls_timing = bls_timing_value(choice)]
      [] k = 13 -> [a EXCEPT !.expectation = choice]

\* The script run of step k without a choice of the user: the widget
\* returns the option at its index.  The checkbox of step 14 returns the
\* stored value.
render(k, a) ==
    IF k = TOTAL_STEPS THEN a
    ELSE store(k, a, widget_options(k, a)[default_index(k, a)])

\* The first script run of a session: lines 432-453, then step 1.
Init ==
    /\ step = 1
    /\ answers = render(1, InitialAnswers)
    /\ pc = "idle"
    /\ final_answers = << >>
    /\ score = 3
    /\ status = <<"", "">>
    /\ rec = NoRecommendation
    /\ summary_lines = << >>
    /\ calls = << >>
    /\ selections = 0

\* The user picks another option of the widget of steps 1-13; the script
\* reruns and stores it.
Select ==
    /\ step < TOTAL_STEPS
    /\ selections < MaxSelections
    /\ \E choice \in Range(widget_options(step, answers)) :
           /\ choice # widget_options(step, answers)[default_index(step, answers)]
           /\ answers' = store(step, answers, choice)
    /\ selections' = selections + 1
    /\ pc' = "idle"
    /\ NoResult
    /\ UNCHANGED step

\* Lines 714-715: the user ticks or unticks the checkbox of step 14.
ToggleAnalystView ==
    /\ step = TOTAL_STEPS
    /\ selections < MaxSelections
    /\ answers' = [answers EXCEPT !.show_analyst_view = ~@]
    /\ selections' = selections + 1
    /\ pc' = "idle"
    /\ NoResult
    /\ UNCHANGED step

\* A variant of go_next_step: Next leads straight to the last step.
go_next_step_to_last(s) == TOTAL_STEPS

\* A variant of go_next_step: the step is raised without the test.
go_next_step_unguarded(s) == s + 1

\* Lines 458-460: the callback of the Next button.
go_next_step(s) == IF s < TOTAL_STEPS THEN s + 1 ELSE s

\* Lines 463-465: the callback of the Back button.
go_back_step(s) == IF s > 1 THEN s - 1 ELSE s

\* A click on Next, which lines 848-849 show below step 14: the callback,
\* then the script run of the step it leads to.
go_next ==
    /\ step < TOTAL_STEPS
    /\ step' = go_next_step(step)
    /\ answers' = render(step', answers)
    /\ pc' = "idle"
    /\ NoResult
    /\ UNCHANGED selections

\* A click on Back, which lines 845-846 show above step 1: the callback,
\* then the script run of the step it leads to.
go_back ==
    /\ step > 1
    /\ step' = go_back_step(step)
    /\ answers' = render(step', answers)
    /\ pc' = "idle"
    /\ NoResult
    /\ UNCHANGED selections

Next == Select \/ ToggleAnalystView \/ go_next \/ go_back \/ Submit

Spec == Init /\ [][Next]_vars

-----------------------------------------------------------------------------
(* Properties of the wizard. *)

AnswerFields ==
    {"market", "objective", "ids", "omnichannel", "budget_level",
     "impressions_level", "duration", "offline_data", "expectation",
     "other_media", "creative", "niche_audience", "bls_timing"}

\* The position of a call in the calls of a script run, 0 if it is not made.
CallPosition(name) ==
    IF name \in Range(calls) THEN IndexOf(calls, name) ELSE 0

\* C18: the scorer, the status mapping and the builder are called only by
\* the submit of step 14, on a record of the thirteen answer fields, the
\* scorer and the mapping before the builder; no script run of steps 1-13
\* calls any of them.
C18_EnginesOnlyAtSubmit ==
    /\ step < TOTAL_STEPS => calls = << >>
    /\ calls # << >> =>
           /\ pc = "submitted"
           /\ step = TOTAL_STEPS
           /\ DOMAIN final_answers = AnswerFields
           /\ Len(calls) = 3
           /\ CallPosition("compute_feasibility_score") = 1
           /\ CallPosition("map_score_to_status") = 2
           /\ CallPosition("build_recommendation") = 3
           /\ score = compute_feasibility_score(final_answers)
           /\ rec = build_recommendation(final_answers)

C18_Witness ==
    /\ pc = "submitted"
    /\ calls # << >>
    /\ selections > 0
    /\ final_answers = FinalAnswers(answers)

\* The closed enumerations of the thirteen answer fields.
ClosedEnumerations ==
    [market : Range(MARKETS),
     objective : Range(OBJECTIVES),
     ids : Range(YES_NO_NOTSURE),
     omnichannel : Range(YES_NO_NOTSURE),
     budget_level : Range(LEVELS),
     impressions_level : Range(LEVELS),
     duration : Range(DURATIONS),
     offline_data : Range(YES_NO_NOTSURE),
     expectation : Range(EXPECTATIONS),
     other_media : Range(YES_NO_NOTSURE),
     creative : Range(CREATIVES),
     niche_audience : Range(NICHE_VALUES),
     bls_timing : Range(BLS_TIMINGS)]

\* C19: in every state of a session that widget selections and Next/Back
\* clicks can reach, each answer field holds a value of its closed
\* enumeration, and so does the record the submit hands to the scorer and
\* the builder.
C19_AnswersInEnumerations ==
    /\ FinalAnswers(answers) \in ClosedEnumerations
    /\ pc = "submitted" => final_answers \in ClosedEnumerations

C19_Witness ==
    /\ pc = "submitted"
    /\ selections = MaxSelections
    /\ final_answers.budget_level = "Low"
    /\ final_answers.omnichannel = "Yes"

-----------------------------------------------------------------------------
(* Two calls of the scorer and of the builder on one record. *)

RepeatRecords ==
    [market : Take(MARKETS, MaxMarkets),
     objective : Range(OBJECTIVES),
     ids : Range(YES_NO_NOTSURE),
     omnichannel : Range(YES_NO_NOTSURE),
     budget_level : Range(LEVELS),
     impressions_level : Range(LEVELS),
     duration : {DURATIONS[1], DURATIONS[3]},
     offline_data : Range(YES_NO_NOTSURE),
     expectation : Range(EXPECTATIONS),
     other_media : {"Yes", "No"},
     creative : {CREATIVE_AVERAGE},
     niche_audience : Range(NICHE_VALUES),
     bls_timing : {BLS_DURING, BLS_NONE}]

InitRepeat ==
    /\ step = TOTAL_STEPS
    /\ answers = << >>
    /\ pc = "idle"
    /\ final_answers \in RepeatRecords
    /\ score = 3
    /\ status = <<"", "">>
    /\ rec = NoRecommendation
    /\ summary_lines = << >>
    /\ calls = << >>
    /\ selections = 0

\* A variant of initial_lists: the lists live outside the function and
\* hold what the previous call left in them.
initial_lists_kept(previous) == previous

\* app.py:207-212: the primary string and the four lists at the entry of
\* build_recommendation, whatever a previous call returned.
initial_lists(previous) == NoRecommendation

\* A call of build_recommendation after a call that returned previous: the
\* entries the body appends follow those the lists hold at entry.
call_build_recommendation(a, previous) ==
    LET entry == initial_lists(previous)
        r == build_recommendation(a)
    IN  [primary |-> r.primary,
         details |-> entry.details \o r.details,
         risks |-> entry.risks \o r.risks,
         alternatives |-> entry.alternatives \o r.alternatives,
         methods |-> entry.methods \o r.methods]

\* The scorer and the builder called on the record; neither assigns to a
\* key of the dict it is given.
FirstCall ==
    /\ pc = "idle"
    /\ score' = compute_feasibility_score(final_answers)
    /\ status' = map_score_to_status(score')
    /\ rec' = call_build_recommendation(final_answers, rec)
    /\ calls' = HANDLER_CALLS
    /\ pc' = "called"
    /\ UNCHANGED <<step, answers, final_answers, summary_lines, selections>>

\* The same calls once more on the same dict.
SecondCall ==
    /\ pc = "called"
    /\ score' = compute_feasibility_score(final_answers)
    /\ status' = map_score_to_status(score')
    /\ rec' = call_build_recommendation(final_answers, rec)
    /\ calls' = calls \o HANDLER_CALLS
    /\ pc' = "called_again"
    /\ UNCHANGED <<step, answers, final_answers, summary_lines, selections>>

NextRepeat == FirstCall \/ SecondCall

SpecRepeat == InitRepeat /\ [][NextRepeat]_vars

-----------------------------------------------------------------------------
(* The two level normalisers on band labels, offered or not. *)

\* The labels get_budget_level is given: those step 5 offers in any market,
\* the empty label of the initialiser and a label no step offers.
BudgetLabels ==
    {get_budget_band_labels(MARKET_INFO(MARKETS[m]))[b] :
         m \in DOMAIN MARKETS, b \in 1..3} \cup {"", UNMAPPED}

\* The labels get_impression_level is given, likewise.
ImpressionLabels == Range(IMPRESSION_OPTIONS) \cup {"", UNMAPPED}

InitLevels ==
    /\ step = 5
    /\ answers \in [budget_label : BudgetLabels, budget_level : {"Medium"},
                    impressions_label : ImpressionLabels,
                    impressions_level : {"Medium"}]
    /\ pc = "idle"
    /\ final_answers = << >>
    /\ score = 3
    /\ status = <<"", "">>
    /\ rec = NoRecommendation
    /\ summary_lines = << >>
    /\ calls = << >>
    /\ selections = 0

\* app.py:575 and 590: the two normalisers applied to the labels.
Normalise ==
    /\ pc = "idle"
    /\ answers' = [answers EXCEPT
                       !.budget_level = get_budget_level(answers.budget_label),
                       !.impressions_level = get_impression_level(answers.impressions_label)]
    /\ pc' = "normalised"
    /\ UNCHANGED <<step, final_answers, score, status, rec, summary_lines,
                   calls, selections>>

NextLevels == Normalise

SpecLevels == InitLevels /\ [][NextLevels]_vars

\* The budget half of C21: Low for a label with "low", else High for one
\* with "high", else Medium.
C21_BudgetKeywords ==
    pc = "normalised" =>
        answers.budget_level =
            IF LowerContains(answers.budget_label, "low") THEN "Low"
            ELSE IF LowerContains(answers.budget_label, "high") THEN "High"
            ELSE "Medium"

\* C21: both normalisers fall through to Medium: the budget level follows
\* the keywords "low" and "high" and is Medium otherwise, and an
\* impressions label that matches no band-boundary pattern is given Medium,
\* never Low or High.
C21_FallThroughMedium ==
    pc = "normalised" =>
        /\ answers.budget_level =
               IF LowerContains(answers.budget_label, "low") THEN "Low"
               ELSE IF LowerContains(answers.budget_label, "high") THEN "High"
               ELSE "Medium"
        /\ (\A needle \in {"<", "0-", "100k-", "50k-"} :
                ~LowerContains(answers.impressions_label, needle))
               => answers.impressions_level = "Medium"

\* What the code does with an impressions label that matches no pattern:
\* it is given High.
C21_ImpressionsFallThroughHigh ==
    pc = "normalised" =>
        ((\A needle \in {"<", "0-", "100k-", "50k-"} :
              ~LowerContains(answers.impressions_label, needle))
             => answers.impressions_level = "High")

-----------------------------------------------------------------------------
(* Further properties of the wizard. *)

\* What step 3 stores for its option i, and the index the next run of the
\* step gives the radio after that.
Step3Stored(i) == store(3, answers, widget_options(3, answers)[i]).omnichannel

Step3Reselected(i) ==
    default_index(3, store(3, answers, widget_options(3, answers)[i]))

\* C22: at step 3 the stored omnichannel answer matches the option chosen
\* (Yes, No, Not sure for the first, second and third option) and the next
\* run of the step pre-selects the option that was chosen.
C22_Step3RoundTrip ==
    step = 3 =>
        \A i \in 1..3 :
            /\ Step3Stored(i) = YES_NO_NOTSURE[i]
            /\ Step3Reselected(i) = i

\* The round trip of the first two options.
C22_YesNoRoundTrip ==
    step = 3 =>
        \A i \in 1..2 :
            /\ Step3Stored(i) = YES_NO_NOTSURE[i]
            /\ Step3Reselected(i) = i

\* What the code does with the third option: it is stored as "No", the
\* second option is pre-selected afterwards, and once step 3 has been
\* displayed omnichannel is never "Not sure".
C22_NotSureStoredAsNo ==
    /\ step = 3 => (Step3Stored(3) = "No" /\ Step3Reselected(3) = 2)
    /\ step >= 3 => answers.omnichannel \in {"Yes", "No"}

-----------------------------------------------------------------------------
(* Further properties of the rule engine of revision 1. *)

\* The primary says that a formal uplift study is not possible.
UpliftNotPossible == rec.primary \in {PRIMARY_FOOTFALL_PROXY, PRIMARY_SALES_KPI}

\* C23: whenever the primary says that a formal uplift study is not
\* possible (Footfall or Sales without offline data "Yes"), the score of
\* the same record is at most 2 and the status is not "Strong measurement
\* feasible".
C23_NoStrongWithoutUplift ==
    (pc = "evaluated" /\ UpliftNotPossible) =>
        /\ score <= 2
        /\ status[1] # "Strong measurement feasible"

\* The part that holds: with offline data "No" the score is at most 2.
C23_OfflineNoAtMostTwo ==
    (pc = "evaluated" /\ UpliftNotPossible /\ final_answers.offline_data = "No") =>
        /\ score <= 2
        /\ status[1] # "Strong measurement feasible"

\* The primary says so exactly for Footfall and Sales without offline
\* data "Yes".
C23_UpliftNotPossibleWhen ==
    pc = "evaluated" =>
        (UpliftNotPossible <=>
            /\ final_answers.objective \in {OBJ_FOOTFALL, OBJ_SALES}
            /\ final_answers.offline_data # "Yes")

-----------------------------------------------------------------------------
(* The whole file in one session: the initialiser of line 435 runs first   *)
(* and creates st.session_state.answers, so the initialiser of line 1247   *)
(* finds it present and leaves it alone; both submit handlers read it.     *)

NextFile == Select \/ ToggleAnalystView \/ go_next \/ go_back \/ Submit \/ Submit2

SpecFile == Init /\ [][NextFile]_vars

\* C24: the record assembled at each submit holds every key the scorer and
\* the builder it is passed to read, "control" included for the builder of
\* lines 1032-1233, so no submit fails on a missing field.
C24_SubmitHasEveryKey ==
    /\ pc # "KeyError"
    /\ pc = "submitted" => DOMAIN final_answers = AnswerFields
    /\ pc = "submitted2" => DOMAIN final_answers = AnswerFields \cup {"control"}

\* The handler of lines 718-745 does assemble its thirteen keys.
C24_FirstHandlerComplete ==
    pc = "submitted" => DOMAIN final_answers = AnswerFields

\* What the code does: no step stores "control", so the handler of lines
\* 1530-1546 never completes on the session the first initialiser made.
C24_SecondHandlerFails ==
    /\ "control" \notin DOMAIN answers
    /\ pc # "submitted2"

-----------------------------------------------------------------------------
(* Navigation and the stored answers. *)

\* C25: a budget band chosen at step 5 is retained across navigation:
\* going back, changing the market and walking forward through step 5
\* without touching the budget widget leaves budget_level as selected.  No
\* step other than a selection at step 5 changes budget_level.
C25_BudgetRetained ==
    [][(selections' = selections \/ step # 5)
           => answers'.budget_level = answers.budget_level]_vars

\* What the code does: a run of step 5 changes budget_level without a
\* selection exactly when the stored label is not one the market's bands
\* offer, and then to the level of the second band.
C25_LostOnStaleLabel ==
    [][((selections' = selections \/ step # 5)
            /\ answers'.budget_level # answers.budget_level)
           => /\ step' = 5
              /\ answers.budget_label # ""
              /\ answers.budget_label \notin Range(widget_options(5, answers))
              /\ answers'.budget_level = "Medium"]_vars

-----------------------------------------------------------------------------
(* The two navigation callbacks called at any step, the first and the last *)
(* included, on sessions with different answers.  calls logs the calls.    *)

\* How many calls of the callbacks one session makes.
MaxCalls == 15

NavSessions ==
    {[InitialAnswers EXCEPT !.objective = o] : o \in Range(OBJECTIVES)}

InitNav ==
    /\ step = 1
    /\ answers \in NavSessions
    /\ pc = "idle"
    /\ final_answers = << >>
    /\ score = 3
    /\ status = <<"", "">>
    /\ rec = NoRecommendation
    /\ summary_lines = << >>
    /\ calls = << >>
    /\ selections = 0

\* A call of go_next (lines 458-460): it assigns st.session_state.step only.
CallGoNext ==
    /\ Len(calls) < MaxCalls
    /\ step' = go_next_step(step)
    /\ calls' = Append(calls, "go_next")
    /\ pc' = "go_next"
    /\ UNCHANGED <<answers, final_answers, score, status, rec, summary_lines,
                   selections>>

\* A call of go_back (lines 463-465).
CallGoBack ==
    /\ Len(calls) < MaxCalls
    /\ step' = go_back_step(step)
    /\ calls' = Append(calls, "go_back")
    /\ pc' = "go_back"
    /\ UNCHANGED <<answers, final_answers, score, status, rec, summary_lines,
                   selections>>

NextNav == CallGoNext \/ CallGoBack

SpecNav == InitNav /\ [][NextNav]_vars

-----------------------------------------------------------------------------
(* The band labels and levels in the sessions of the wizard. *)

\* C27: the submit happens only at step 14, and a click moves the step by
\* one from step 1, so step 14 is reached only after steps 1-13 have each
\* been displayed; at every submit, and at every step after step 5 (6),
\* budget_label (impressions_label) is non-empty and the level is the one
\* the normaliser gave it.
C27_SubmitAfterEveryStep ==
    /\ [](/\ (pc = "submitted" \/ calls # << >>) => step = TOTAL_STEPS
          /\ step >= 5 =>
                 /\ answers.budget_label # ""
                 /\ answers.budget_level = get_budget_level(answers.budget_label)
          /\ step >= 6 =>
                 /\ answers.impressions_label # ""
                 /\ answers.impressions_level
                        = get_impression_level(answers.impressions_label)
          /\ pc = "submitted" =>
                 /\ final_answers.budget_level = get_budget_level(answers.budget_label)
                 /\ final_answers.impressions_level
                        = get_impression_level(answers.impressions_label))
    /\ [][step' \in {step - 1, step, step + 1}]_vars

\* A submit of a session in which no widget was touched.
C27_Witness ==
    /\ pc = "submitted"
    /\ selections = 0
    /\ answers.budget_label # ""
    /\ answers.impressions_label # ""

\* C28: in every session state budget_level is get_budget_level of the
\* stored budget_label, and Medium while the label is empty; likewise
\* impressions_level and impressions_label; the four options of step 6
\* have the levels Low, Medium, High, High.
C28_LevelsAgreeWithLabels ==
    /\ answers.budget_level =
           IF answers.budget_label = "" THEN "Medium"
           ELSE get_budget_level(answers.budget_label)
    /\ answers.impressions_level =
           IF answers.impressions_label = "" THEN "Medium"
           ELSE get_impression_level(answers.impressions_label)
    /\ [i \in 1..4 |-> get_impression_level(IMPRESSION_OPTIONS[i])]
           = <<"Low", "Medium", "High", "High">>

\* A session in which both bands were chosen.
C28_Witness ==
    /\ selections = MaxSelections
    /\ answers.budget_level = "High"
    /\ answers.impressions_level = "High"
    /\ answers.impressions_label = IMPRESSION_OPTIONS[4]

-----------------------------------------------------------------------------
(* The risks list of revision 1. *)

\* How often entry x stands in the sequence.
Count(seq, x) == Cardinality({i \in DOMAIN seq : seq[i] = x})

\* C29: with a low budget, risks holds the budget-threshold entry and
\* exactly one of the 'Bermuda Triangle' entry (impressions Low) and the
\* budget-vs-reach entry (impressions Medium or High); with another budget
\* level it holds none of the three.
C29_LowBudgetRisks ==
    pc = "evaluated" =>
        IF final_answers.budget_level = "Low"
        THEN /\ Count(rec.risks, RISK_BUDGET_THRESHOLD) = 1
             /\ Count(rec.risks, RISK_BERMUDA) + Count(rec.risks, RISK_BUDGET_REACH) = 1
             /\ Count(rec.risks, RISK_BERMUDA) = 1
                    <=> final_answers.impressions_level = "Low"
             /\ Count(rec.risks, RISK_BUDGET_REACH) = 1
                    <=> final_answers.impressions_level \in {"Medium", "High"}
        ELSE /\ Count(rec.risks, RISK_BUDGET_THRESHOLD) = 0
             /\ Count(rec.risks, RISK_BERMUDA) = 0
             /\ Count(rec.risks, RISK_BUDGET_REACH) = 0

C29_Witness ==
    /\ pc = "evaluated"
    /\ final_answers.budget_level = "Low"
    /\ final_answers.impressions_level = "High"
    /\ RISK_BUDGET_REACH \in Range(rec.risks)
    /\ RISK_BUDGET_THRESHOLD \in Range(rec.risks)

\* The risks entries of lines 239-412 in the order of the statements that
\* append them.
RISK_APPEND_ORDER ==
    <<"Running a BLS under 30k can result in too small a sample and invalid results. Example CPM of GBP 8 on a GBP 30k budget ~ 240,000 impressions -> 240,000 / frequency of 3 ~ 80,000 unique reach -> 1% CTR gives 800 clicks -> 10% completion rate gives 80 completes, which is too small a sample.", "Running BLS after or very close to the end of a campaign limits the chance of getting a representative sample and reduces subconscious recognition even 48 hours after exposure.", "B2B / niche audiences: likelihood of reaching them with BLS at scale is very low.", "Respondent experience: avoid too many answer options, overly long questions or character-heavy text. These reduce completion rates and data quality.",
      RISK_BUDGET_THRESHOLD, RISK_BERMUDA, "Number and density of impressions are limited. Distribution across postcodes may be patchy, reducing representativeness.", "Duration is short (even allowing for bursts of activity). It may not allow enough time to build reach and frequency.", RISK_BUDGET_REACH,
      "Things that can limit effectiveness: niche or ultra high value audiences are harder to reach consistently and can struggle to hit the minimum sample requirements.", "Other media running in the same markets and period will make it harder to isolate this activity's impact.", RISK_CREATIVE, RISK_MARKET, RISK_CONTROL>>

\* C30: risks is never empty; its last two entries are the market note and
\* then the control note, every other entry comes before them, and the
\* entries stand in the order of the statements that append them.
C30_RisksOrder ==
    pc = "evaluated" =>
        LET n == Len(rec.risks)
            at(i) == IndexOf(RISK_APPEND_ORDER, rec.risks[i])
        IN  /\ n >= 2
            /\ rec.risks[n - 1] = RISK_MARKET
            /\ rec.risks[n] = RISK_CONTROL
            /\ \A i \in 1..(n - 2) : rec.risks[i] \notin {RISK_MARKET, RISK_CONTROL}
            /\ \A i \in 1..n : rec.risks[i] \in Range(RISK_APPEND_ORDER)
            /\ \A i \in 1..(n - 1) : at(i) < at(i + 1)

\* A Brand record whose branch and whose cross-cutting pass both append.
C30_Witness ==
    /\ pc = "evaluated"
    /\ final_answers.objective = OBJ_BRAND
    /\ final_answers.budget_level = "Low"
    /\ final_answers.niche_audience = "Yes"
    /\ final_answers.creative = CREATIVE_WEAK
    /\ Len(rec.risks) >= 8

=============================================================================
